---- MODULE Spec2Model ----
(***************************************************************************)
(* DataArchive: the inspection ledger (sessions, passes) of                *)
(* python/core/database.py and the duplicate grouping of                   *)
(* python/inspection/pass3_metadata.py, as state machines.                 *)
(*                                                                         *)
(* Tables are sequences of rows; the AUTOINCREMENT primary key of a row is *)
(* its index.  No statement of the modelled code deletes a row.            *)
(***************************************************************************)
EXTENDS Integers, Sequences, FiniteSets, TLC

VARIABLES
    inspection_sessions,   \* table inspection_sessions
    inspection_passes,     \* table inspection_passes
    clock,                 \* number of datetime.now() readings so far
    call,                  \* the most recent ledger call and its arguments
    resumed,               \* last answer of resume(): [session_id, ordinal]
    disk,                  \* the files of the inspected drive
    scans,                 \* table scans
    files,                 \* table files
    file_hashes,           \* table file_hashes
    duplicate_groups,      \* table duplicate_groups
    duplicate_members,     \* table duplicate_members
    run,                   \* MetadataCapture.inspect in progress, its phase
    report,                \* the MetadataReport of the current or last run
    runs,                  \* number of inspect() calls made
    inspection_decisions,  \* table inspection_decisions
    report_documents,      \* the documents held as report_json text
    pending,               \* last answer of get_pending_decisions()
    samples,               \* the files handed to the hash utilities
    verdict,               \* last answer of a hash utility
    loop                   \* locals of MetadataCapture.inspect in a session

sessionVars == <<inspection_sessions, inspection_passes, clock, call, resumed>>

captureVars == <<disk, scans, files, file_hashes, duplicate_groups,
                 duplicate_members, run, report, runs>>

reviewVars == <<inspection_decisions, report_documents, pending>>

utilVars == <<samples, verdict>>

stageVars == <<loop>>

vars == <<inspection_sessions, inspection_passes, clock, call, resumed,
          disk, scans, files, file_hashes, duplicate_groups,
          duplicate_members, run, report, runs,
          inspection_decisions, report_documents, pending,
          samples, verdict, loop>>

----------------------------------------------------------------------------
(* Bounds *)

MaxSessions == 2     \* sessions ever started
MaxClock == 3        \* ledger operations (each reads the clock once)

----------------------------------------------------------------------------
(* Values *)

NULL == "NULL"                 \* SQL NULL / Python None in a TEXT column
NoTime == 0                    \* SQL NULL in a TIMESTAMP column

PassNames == <<"health", "os_detection", "metadata", "review">>

PassStatuses == {"pending", "running", "completed", "failed", "skipped"}

\* Inputs of the operations.  A session id one past the last one that can
\* exist, and pass number 5, are the invalid references.
SessionIdInputs == 1..(MaxSessions + 1)
PassNumberInputs == 1..5
DriveIds == {1}
ReportInputs == {NULL, "report"}
ErrorInputs == {NULL, "", "error"}
ReasonInputs == {"reason"}
SessionStatusInputs == {"completed", "failed"}

\* Python truthiness of an Optional[str]: None and "" are falsy.
Truthy(s) == s # NULL /\ s # ""

\* datetime.now(): the reading taken by the operation that is running.
Now == clock + 1

\* A call of the ledger interface: the method and its arguments (0 / NULL
\* for the arguments the method does not take), and how it ended.  Every
\* method ends in a return statement; none has a raise statement, and an
\* UPDATE that matches no row is not an error to SQLite.
Call(op, session_id, pass_number, report_json, error_message, status) ==
    [op |-> op, session_id |-> session_id, pass_number |-> pass_number,
     report_json |-> report_json, error_message |-> error_message,
     status |-> status, outcome |-> "returned"]

NoCall == [Call("none", 0, 0, NULL, NULL, NULL) EXCEPT !.outcome = "none"]

----------------------------------------------------------------------------
(* Database.start_inspection *)

NewSession(drive_id, t) ==
    [drive_id |-> drive_id, started_at |-> t, completed_at |-> NoTime,
     status |-> "active", current_pass |-> 1]

\* the placeholders numbered from 0, as the loop index would be
NewPassZeroBased(session_id, pass_num) ==
    [session_id |-> session_id, pass_number |-> pass_num - 1,
     pass_name |-> PassNames[pass_num], started_at |-> NoTime,
     completed_at |-> NoTime, status |-> "pending",
     report_json |-> NULL, error_message |-> NULL]

NewPass(session_id, pass_num) ==
    [session_id |-> session_id, pass_number |-> pass_num,
     pass_name |-> PassNames[pass_num], started_at |-> NoTime,
     completed_at |-> NoTime, status |-> "pending",
     report_json |-> NULL, error_message |-> NULL]

start_inspection(drive_id) ==
    /\ clock < MaxClock
    /\ Len(inspection_sessions) < MaxSessions
    /\ LET session_id == Len(inspection_sessions) + 1
       IN /\ inspection_sessions' =
                Append(inspection_sessions, NewSession(drive_id, Now))
          /\ inspection_passes' = inspection_passes \o
                [n \in 1..4 |-> NewPass(session_id, n)]
    /\ clock' = clock + 1
    /\ call' = Call("start_inspection", Len(inspection_sessions) + 1, 0,
                    NULL, NULL, NULL)
    /\ UNCHANGED <<resumed, captureVars,
                   reviewVars, utilVars, stageVars>>

----------------------------------------------------------------------------
(* Database.get_inspection *)

\* the same rows, ORDER BY pass_number DESC
RECURSIVE SortedByPassNumberDesc(_)
SortedByPassNumberDesc(ids) ==
    IF ids = {} THEN <<>>
    ELSE LET first == CHOOSE i \in ids : \A j \in ids :
                 inspection_passes[i].pass_number
                     >= inspection_passes[j].pass_number
         IN <<inspection_passes[first]>>
                \o SortedByPassNumberDesc(ids \ {first})

\* SELECT * FROM inspection_passes WHERE session_id = ? ORDER BY pass_number
RECURSIVE SortedByPassNumber(_)
SortedByPassNumber(ids) ==
    IF ids = {} THEN <<>>
    ELSE LET first == CHOOSE i \in ids : \A j \in ids :
                 \/ inspection_passes[i].pass_number
                        < inspection_passes[j].pass_number
                 \/ /\ inspection_passes[i].pass_number
                        = inspection_passes[j].pass_number
                    /\ i <= j
         IN <<inspection_passes[first]>> \o SortedByPassNumber(ids \ {first})

PassesOf(session_id) ==
    SortedByPassNumber({i \in DOMAIN inspection_passes :
                            inspection_passes[i].session_id = session_id})

get_inspection(session_id) ==
    IF session_id \in DOMAIN inspection_sessions
    THEN [found |-> TRUE, session |-> inspection_sessions[session_id],
          passes |-> PassesOf(session_id)]
    ELSE [found |-> FALSE, session |-> NULL, passes |-> <<>>]

----------------------------------------------------------------------------
(* Database.start_pass *)

\* the start time alone is set
StartedRowNoStatus(row, t) == [row EXCEPT !.started_at = t]

\* SET status = 'running', started_at = ?
StartedRow(row, t) == [row EXCEPT !.status = "running", !.started_at = t]

\* ... WHERE session_id = ? AND pass_number = ?
start_pass_rows(session_id, pass_number) ==
    [i \in DOMAIN inspection_passes |->
        IF /\ inspection_passes[i].session_id = session_id
           /\ inspection_passes[i].pass_number = pass_number
        THEN StartedRow(inspection_passes[i], Now)
        ELSE inspection_passes[i]]

\* the UPDATE of inspection_sessions without its WHERE clause
start_pass_sessionsEverySession(session_id, pass_number) ==
    [s \in DOMAIN inspection_sessions |->
        [inspection_sessions[s] EXCEPT !.current_pass = pass_number]]

\* UPDATE inspection_sessions SET current_pass = ? WHERE session_id = ?
start_pass_sessions(session_id, pass_number) ==
    [s \in DOMAIN inspection_sessions |->
        IF s = session_id
        THEN [inspection_sessions[s] EXCEPT !.current_pass = pass_number]
        ELSE inspection_sessions[s]]

start_pass(session_id, pass_number) ==
    /\ clock < MaxClock
    /\ inspection_passes' = start_pass_rows(session_id, pass_number)
    /\ inspection_sessions' = start_pass_sessions(session_id, pass_number)
    /\ clock' = clock + 1
    /\ call' = Call("start_pass", session_id, pass_number, NULL, NULL, NULL)
    /\ UNCHANGED <<resumed, captureVars,
                   reviewVars, utilVars, stageVars>>

----------------------------------------------------------------------------
(* Database.complete_pass *)

\* "is not None" in place of the truth test
complete_pass_statusNotNone(error_message) ==
    IF error_message # NULL THEN "failed" ELSE "completed"

complete_pass_status(error_message) ==
    IF Truthy(error_message) THEN "failed" ELSE "completed"

\* SET status = ?, completed_at = ?, report_json = ?, error_message = ?
CompletedRow(row, t, report_json, error_message) ==
    [row EXCEPT !.status = complete_pass_status(error_message),
                !.completed_at = t,
                !.report_json = report_json,
                !.error_message = error_message]

complete_pass_rows(session_id, pass_number, report_json, error_message) ==
    [i \in DOMAIN inspection_passes |->
        IF /\ inspection_passes[i].session_id = session_id
           /\ inspection_passes[i].pass_number = pass_number
        THEN CompletedRow(inspection_passes[i], Now, report_json,
                          error_message)
        ELSE inspection_passes[i]]

complete_pass(session_id, pass_number, report_json, error_message) ==
    /\ clock < MaxClock
    /\ inspection_passes' =
           complete_pass_rows(session_id, pass_number, report_json,
                              error_message)
    /\ clock' = clock + 1
    /\ call' = Call("complete_pass", session_id, pass_number, report_json,
                    error_message, NULL)
    /\ UNCHANGED <<inspection_sessions, resumed, captureVars,
                   reviewVars, utilVars, stageVars>>

----------------------------------------------------------------------------
(* Database.skip_pass *)

\* SET status = 'skipped', completed_at = ?, error_message = ?
SkippedRow(row, t, reason) ==
    [row EXCEPT !.status = "skipped", !.completed_at = t,
                !.error_message = reason]

skip_pass_rows(session_id, pass_number, reason) ==
    [i \in DOMAIN inspection_passes |->
        IF /\ inspection_passes[i].session_id = session_id
           /\ inspection_passes[i].pass_number = pass_number
        THEN SkippedRow(inspection_passes[i], Now, reason)
        ELSE inspection_passes[i]]

skip_pass(session_id, pass_number, reason) ==
    /\ clock < MaxClock
    /\ inspection_passes' = skip_pass_rows(session_id, pass_number, reason)
    /\ clock' = clock + 1
    /\ call' = Call("skip_pass", session_id, pass_number, NULL, reason, NULL)
    /\ UNCHANGED <<inspection_sessions, resumed, captureVars,
                   reviewVars, utilVars, stageVars>>

----------------------------------------------------------------------------
(* Database.complete_inspection *)

complete_inspection_sessions(session_id, status) ==
    [s \in DOMAIN inspection_sessions |->
        IF s = session_id
        THEN [inspection_sessions[s] EXCEPT !.status = status,
                                            !.completed_at = Now]
        ELSE inspection_sessions[s]]

complete_inspection(session_id, status) ==
    /\ clock < MaxClock
    /\ inspection_sessions' = complete_inspection_sessions(session_id, status)
    /\ clock' = clock + 1
    /\ call' = Call("complete_inspection", session_id, 0, NULL, NULL, status)
    /\ UNCHANGED <<inspection_passes, resumed, captureVars,
                   reviewVars, utilVars, stageVars>>

----------------------------------------------------------------------------
(* The catalogue tables before any metadata capture *)

\* MetadataReport(): the fields the capture phases write
NewReport ==
    [scan_id |-> 0, total_files |-> 0, files_hashed |-> 0,
     duplicate_groups_found |-> 0, total_duplicate_files |-> 0,
     total_wasted_bytes |-> 0, cross_scan_duplicates |-> 0,
     duplicate_groups |-> <<>>, errors |-> <<>>]

Idle == [phase |-> "idle", scan_id |-> 0, enable_hashing |-> FALSE]

EmptyLedger ==
    /\ scans = <<>>
    /\ files = <<>>
    /\ file_hashes = <<>>
    /\ duplicate_groups = <<>>
    /\ duplicate_members = <<>>
    /\ run = Idle
    /\ report = NewReport
    /\ runs = 0

NoCapture ==
    /\ disk = <<>>
    /\ EmptyLedger

\* no decision recorded, no report document stored, nothing asked yet
NoDecisions ==
    /\ inspection_decisions = <<>>
    /\ pending = [session_id |-> 0, decisions |-> <<>>]

NoReview ==
    /\ NoDecisions
    /\ report_documents = <<>>

NoVerdict == [op |-> "none"]

NoUtil ==
    /\ samples = <<>>
    /\ verdict = NoVerdict

\* no metadata capture of a session under way
NoLoop == [ended |-> "none"]

NoStage == loop = NoLoop

----------------------------------------------------------------------------
(* The ledger under any sequence of calls *)

NoResume == [session_id |-> 0, ordinal |-> 0]

Init ==
    /\ inspection_sessions = <<>>
    /\ inspection_passes = <<>>
    /\ clock = 0
    /\ call = NoCall
    /\ resumed = NoResume
    /\ NoCapture
    /\ NoReview
    /\ NoUtil
    /\ NoStage

StartInspection == \E d \in DriveIds : start_inspection(d)

StartPass ==
    \E s \in SessionIdInputs, p \in PassNumberInputs : start_pass(s, p)

CompletePass ==
    \E s \in SessionIdInputs, p \in PassNumberInputs,
       r \in ReportInputs, e \in ErrorInputs : complete_pass(s, p, r, e)

SkipPass ==
    \E s \in SessionIdInputs, p \in PassNumberInputs, r \in ReasonInputs :
        skip_pass(s, p, r)

CompleteInspection ==
    \E s \in SessionIdInputs, st \in SessionStatusInputs :
        complete_inspection(s, st)

Next ==
    \/ StartInspection
    \/ StartPass
    \/ CompletePass
    \/ SkipPass
    \/ CompleteInspection

Spec == Init /\ [][Next]_vars

----------------------------------------------------------------------------
(* resume(session_id): the first pass, in the order get_inspection returns *)
(* them, whose status is not completed or skipped; 0 when there is none    *)
(* or the session does not exist.                                          *)

RECURSIVE FirstOpen(_)
FirstOpen(passes) ==
    IF passes = <<>> THEN 0
    ELSE IF Head(passes).status \notin {"completed", "skipped"}
         THEN Head(passes).pass_number
         ELSE FirstOpen(Tail(passes))

resume(session_id) ==
    LET inspection == get_inspection(session_id)
    IN IF inspection.found THEN FirstOpen(inspection.passes) ELSE 0

DoResume(session_id) ==
    /\ resumed' = [session_id |-> session_id, ordinal |-> resume(session_id)]
    /\ UNCHANGED <<inspection_sessions, inspection_passes, clock, call,
                   captureVars,
                   reviewVars, utilVars, stageVars>>

\* A ledger in which the four passes of session 1 are in the statuses st:
\* each pass was left pending or was the target of the one call that
\* produces its status, in ordinal order; the other sessions are untouched.
RowInStatus(session_id, n, status, t) ==
    CASE status = "pending" -> NewPass(session_id, n)
      [] status = "running" -> StartedRow(NewPass(session_id, n), t)
      [] status = "completed" ->
             CompletedRow(NewPass(session_id, n), t, "report", NULL)
      [] status = "failed" ->
             CompletedRow(NewPass(session_id, n), t, "report", "error")
      [] status = "skipped" -> SkippedRow(NewPass(session_id, n), t, "reason")

InitResume ==
    \E st \in [1..4 -> PassStatuses] :
        /\ inspection_sessions =
               [s \in 1..MaxSessions |-> NewSession(1, s)]
        /\ inspection_passes =
               [i \in 1..(4 * MaxSessions) |->
                   LET s == ((i - 1) \div 4) + 1
                       n == ((i - 1) % 4) + 1
                   IN IF s = 1
                      THEN RowInStatus(s, n, st[n], MaxSessions + n)
                      ELSE NewPass(s, n)]
        /\ clock = MaxSessions + 4
        /\ call = NoCall
        /\ resumed = NoResume
        /\ NoCapture
        /\ NoReview
        /\ NoUtil
        /\ NoStage

Resume == \E s \in SessionIdInputs : DoResume(s)

NextResume == Resume

SpecResume == InitResume /\ [][NextResume]_vars

----------------------------------------------------------------------------
(* The inspected drive and the quick hash *)

MaxRuns == 2         \* inspect() calls
HashSpace == 2       \* distinct digests the hash function can produce

\* Relative paths of the files on the drive, in os.walk order (the files of
\* a directory come as os.scandir lists them, which need not be sorted); a
\* path is the sequence of its components.
DiskPaths == << <<"a">>, <<"dir", "b">>, <<"dir", "A">> >>

\* A file on the drive: its length in bytes and the bytes that
\* compute_quick_hash reads from it.
FileSizes == {10, 2048, 4096}
FileData == {0, 1}

DEFAULT_MIN_SIZE_FOR_DUPLICATE == 1024

HexDigits == <<"0", "1", "2", "3", "4", "5", "6", "7",
               "8", "9", "a", "b", "c", "d", "e", "f">>

\* hasher.hexdigest(): the digest in hexadecimal, two digits here
HexDigest(d) == <<HexDigits[(d \div 16) + 1], HexDigits[(d % 16) + 1]>>

\* hashlib.md5 fed str(file_size) and then the bytes read: some function
\* of both into a finite digest space, so distinct inputs may collide.
Md5(file_size, data) == (file_size + data) % HashSpace

DiskIndex(path) == CHOOSE i \in DOMAIN DiskPaths : DiskPaths[i] = path

\* compute_quick_hash(full_path): <<hash_value, error>>
compute_quick_hash(path) ==
    IF \E i \in DOMAIN disk : DiskPaths[i] = path
    THEN <<HexDigest(Md5(disk[DiskIndex(path)].size,
                         disk[DiskIndex(path)].data)), NULL>>
    ELSE <<NULL, "File not found">>

----------------------------------------------------------------------------
(* hash_utils.generate_composite_key / parse_composite_key *)

\* str(n) for n >= 0, as a sequence of characters
RECURSIVE DecimalDigits(_)
DecimalDigits(n) ==
    IF n < 10 THEN <<HexDigits[n + 1]>>
    ELSE DecimalDigits(n \div 10) \o <<HexDigits[(n % 10) + 1]>>

\* f"{file_size}:{quick_hash}"
generate_composite_key(file_size, quick_hash) ==
    DecimalDigits(file_size) \o <<":">> \o quick_hash

DigitValue(c) == (CHOOSE i \in 1..10 : HexDigits[i] = c) - 1

\* int(s) of a string of decimal digits
RECURSIVE ParseInt(_)
ParseInt(str) ==
    IF Len(str) = 1 THEN DigitValue(str[1])
    ELSE 10 * ParseInt(SubSeq(str, 1, Len(str) - 1)) + DigitValue(str[Len(str)])

\* key.split(':', 1): the text before and after the first colon
FirstColon(key) == CHOOSE i \in 1..Len(key) :
                       key[i] = ":" /\ \A j \in 1..(i - 1) : key[j] # ":"

parse_composite_key(key) ==
    <<ParseInt(SubSeq(key, 1, FirstColon(key) - 1)),
      SubSeq(key, FirstColon(key) + 1, Len(key))>>

----------------------------------------------------------------------------
(* MetadataCapture.inspect: start (lines 244-275) *)

\* inspect() called without a session_id, so the pass ledger is not written.
\* scan_id = 0 stands for scan_id=None: Database.start_scan makes a new scan
inspect_begin(scan_id, enable_hashing) ==
    /\ run.phase = "idle"
    /\ runs < MaxRuns
    /\ LET sid == IF scan_id = 0 THEN Len(scans) + 1 ELSE scan_id
       IN /\ scans' = IF scan_id = 0
                      THEN Append(scans, [status |-> "IN_PROGRESS"])
                      ELSE scans
          /\ run' = [phase |-> "capture", scan_id |-> sid,
                     enable_hashing |-> enable_hashing]
          /\ report' = [NewReport EXCEPT !.scan_id = sid]
    /\ runs' = runs + 1
    /\ UNCHANGED <<disk, files, file_hashes, duplicate_groups,
                   duplicate_members, sessionVars,
                   reviewVars, utilVars, stageVars>>

----------------------------------------------------------------------------
(* MetadataCapture._capture_file_metadata *)

\* phases 2 and 3 run whatever enable_hashing says
phase_after_captureAlwaysHash(enable_hashing) == "hash"

\* if enable_hashing and self.db and scan_id: phases 2 and 3, else phase 4
phase_after_capture(enable_hashing) ==
    IF enable_hashing THEN "hash" ELSE "finish"

\* FileScanner.scan yields the first n files of the drive; n below the
\* number of files on the drive is an enumeration that raised, which is
\* caught and recorded in report.errors.  Every file yielded is buffered
\* and inserted, by full batches and by the final partial batch.
capture_file_metadata(n) ==
    /\ run.phase = "capture"
    /\ files' = files \o
          [i \in 1..n |-> [scan_id |-> run.scan_id, path |-> DiskPaths[i],
                           size_bytes |-> disk[i].size]]
    /\ report' = [report EXCEPT
          !.total_files = n,
          !.errors = IF n < Len(DiskPaths)
                     THEN Append(@, "File enumeration error") ELSE @]
    /\ run' = [run EXCEPT !.phase = phase_after_capture(run.enable_hashing)]
    /\ UNCHANGED <<disk, scans, file_hashes, duplicate_groups,
                   duplicate_members, runs, sessionVars,
                   reviewVars, utilVars, stageVars>>

----------------------------------------------------------------------------
(* MetadataCapture._compute_file_hashes *)

\* the bytes of a path component, for the components on the drive
NameKey(name) ==
    CASE name = "A" -> <<65>>
      [] name = "a" -> <<97>>
      [] name = "b" -> <<98>>
      [] name = "dir" -> <<100, 105, 114>>

\* the bytes of the path text, components joined by '/'
RECURSIVE PathKey(_)
PathKey(path) ==
    IF Len(path) = 1 THEN NameKey(path[1])
    ELSE NameKey(path[1]) \o <<47>> \o PathKey(Tail(path))

\* BINARY collation: byte-wise comparison, a proper prefix first
RECURSIVE SeqLess(_, _)
SeqLess(s, t) ==
    IF t = <<>> THEN FALSE
    ELSE IF s = <<>> THEN TRUE
    ELSE IF Head(s) # Head(t) THEN Head(s) < Head(t)
    ELSE SeqLess(Tail(s), Tail(t))

\* ORDER BY size_bytes DESC says nothing about rows of equal size; their
\* order is that of the scan the query plan makes: by path through
\* idx_files_scan_path (scan_id, path), or by file_id through the table.
TieOrders == {"path", "file_id"}

\* row i comes before row j in the scan of the plan
ScannedBefore(i, j, tie_order) ==
    IF tie_order = "path" /\ files[i].path # files[j].path
    THEN SeqLess(PathKey(files[i].path), PathKey(files[j].path))
    ELSE i <= j

\* ... ORDER BY size_bytes DESC
RECURSIVE BySizeDesc(_, _)
BySizeDesc(ids, tie_order) ==
    IF ids = {} THEN <<>>
    ELSE LET first == CHOOSE i \in ids : \A j \in ids :
                 \/ files[i].size_bytes > files[j].size_bytes
                 \/ /\ files[i].size_bytes = files[j].size_bytes
                    /\ ScannedBefore(i, j, tie_order)
         IN <<first>> \o BySizeDesc(ids \ {first}, tie_order)

\* SELECT file_id, path, size_bytes FROM files
\* WHERE scan_id = ? AND size_bytes >= ? ORDER BY size_bytes DESC
files_to_hash(scan_id, tie_order) ==
    BySizeDesc({i \in DOMAIN files :
                   /\ files[i].scan_id = scan_id
                   /\ files[i].size_bytes >= DEFAULT_MIN_SIZE_FOR_DUPLICATE},
               tie_order)

\* the rows of hash_batch, one per file whose quick hash was computed
RECURSIVE HashRows(_, _)
HashRows(scan_id, ids) ==
    IF ids = <<>> THEN <<>>
    ELSE LET quick_hash == compute_quick_hash(files[Head(ids)].path)[1]
         IN (IF quick_hash # NULL
             THEN <<[scan_id |-> scan_id, file_id |-> Head(ids),
                     hash_type |-> "quick", hash_value |-> quick_hash]>>
             ELSE <<>>) \o HashRows(scan_id, Tail(ids))

compute_file_hashes(tie_order) ==
    /\ run.phase = "hash"
    /\ LET rows == HashRows(run.scan_id,
                            files_to_hash(run.scan_id, tie_order))
       IN /\ file_hashes' = file_hashes \o rows
          /\ report' = [report EXCEPT !.files_hashed = Len(rows)]
    /\ run' = [run EXCEPT !.phase = "identify"]
    /\ UNCHANGED <<disk, scans, files, duplicate_groups, duplicate_members,
                   runs, sessionVars,
                   reviewVars, utilVars, stageVars>>

----------------------------------------------------------------------------
(* MetadataCapture._identify_duplicates *)

GROUP_QUERY_LIMIT == 1000      \* LIMIT 1000 of the grouping query
REPORT_GROUP_LIMIT == 50       \* groups[:50] stored in the report

RECURSIVE Ascending(_)
Ascending(S) ==
    IF S = {} THEN <<>>
    ELSE LET m == CHOOSE x \in S : \A y \in S : x <= y
         IN <<m>> \o Ascending(S \ {m})

Take(seq, n) == SubSeq(seq, 1, IF Len(seq) < n THEN Len(seq) ELSE n)

RECURSIVE SumOf(_)
SumOf(seq) == IF seq = <<>> THEN 0 ELSE Head(seq) + SumOf(Tail(seq))

RECURSIVE Flatten(_)
Flatten(seqs) == IF seqs = <<>> THEN <<>> ELSE Head(seqs) \o Flatten(Tail(seqs))

\* FROM file_hashes h JOIN files f ON h.file_id = f.file_id
\* WHERE h.scan_id = ? AND h.hash_type = 'quick'
QuickRows(scan_id) ==
    {h \in DOMAIN file_hashes :
        /\ file_hashes[h].scan_id = scan_id
        /\ file_hashes[h].hash_type = "quick"
        /\ file_hashes[h].file_id \in DOMAIN files}

\* GROUP BY h.hash_value, f.size_bytes
GroupingColumns(h) ==
    <<file_hashes[h].hash_value, files[file_hashes[h].file_id].size_bytes>>

RowsOfGroup(scan_id, key) ==
    {h \in QuickRows(scan_id) : GroupingColumns(h) = key}

\* HAVING COUNT(*) > 1
HavingCount(scan_id, key) == Cardinality(RowsOfGroup(scan_id, key)) > 1

\* ORDER BY f.size_bytes DESC
RECURSIVE ByFileSizeDesc(_, _)
ByFileSizeDesc(scan_id, keys) ==
    IF keys = {} THEN <<>>
    ELSE LET first == CHOOSE k \in keys : \A j \in keys :
                 files[file_hashes[
                     CHOOSE h \in RowsOfGroup(scan_id, k) : TRUE].file_id
                 ].size_bytes
                 >= files[file_hashes[
                     CHOOSE h \in RowsOfGroup(scan_id, j) : TRUE].file_id
                 ].size_bytes
         IN <<first>> \o ByFileSizeDesc(scan_id, keys \ {first})

\* One row per group: hash_value, size_bytes, COUNT(*), GROUP_CONCAT(file_id),
\* GROUP_CONCAT(path); the concatenations in hash_id order.
duplicate_candidates(scan_id) ==
    LET keys == {k \in {GroupingColumns(h) : h \in QuickRows(scan_id)} :
                    HavingCount(scan_id, k)}
        ordered == Take(ByFileSizeDesc(scan_id, keys), GROUP_QUERY_LIMIT)
    IN [g \in DOMAIN ordered |->
          LET rows == Ascending(RowsOfGroup(scan_id, ordered[g]))
              first == file_hashes[rows[1]]
          IN [hash_value |-> first.hash_value,
              size_bytes |-> files[first.file_id].size_bytes,
              count |-> Len(rows),
              file_ids |-> [i \in DOMAIN rows |-> file_hashes[rows[i]].file_id],
              paths |-> [i \in DOMAIN rows |->
                            files[file_hashes[rows[i]].file_id].path]]]

\* wasted_bytes = file_size * (count - 1)
WastedBytes(file_size, count) == file_size * (count - 1)

\* DuplicateGroup(...).to_dict() with the members of zip(file_ids, paths)
GroupDict(scan_id, row) ==
    LET n == IF Len(row.file_ids) < Len(row.paths)
             THEN Len(row.file_ids) ELSE Len(row.paths)
        members == [i \in 1..n |->
                      [file_id |-> row.file_ids[i], scan_id |-> scan_id,
                       path |-> row.paths[i], size_bytes |-> row.size_bytes,
                       quick_hash |-> row.hash_value]]
    IN [quick_hash |-> row.hash_value, file_size |-> row.size_bytes,
        member_count |-> Len(members), members |-> members,
        wasted_bytes |-> WastedBytes(row.size_bytes, row.count)]

\* INSERT INTO duplicate_groups ...
GroupRow(row, group) ==
    [hash_value |-> row.hash_value, file_size |-> row.size_bytes,
     file_count |-> row.count, total_wasted_bytes |-> group.wasted_bytes,
     status |-> "unresolved"]

\* INSERT INTO duplicate_members ..., is_primary = (i == 0)
MemberRows(group_id, scan_id, group) ==
    [i \in DOMAIN group.members |->
        [group_id |-> group_id, file_id |-> group.members[i].file_id,
         scan_id |-> scan_id, is_primary |-> (i = 1)]]

identify_duplicates ==
    /\ run.phase = "identify"
    /\ LET candidates == duplicate_candidates(run.scan_id)
           groups == [g \in DOMAIN candidates |->
                         GroupDict(run.scan_id, candidates[g])]
       IN /\ duplicate_groups' = duplicate_groups \o
                [g \in DOMAIN candidates |->
                    GroupRow(candidates[g], groups[g])]
          /\ duplicate_members' = duplicate_members \o
                Flatten([g \in DOMAIN groups |->
                    MemberRows(Len(duplicate_groups) + g, run.scan_id,
                               groups[g])])
          /\ report' = [report EXCEPT
                !.duplicate_groups_found = Len(groups),
                !.total_duplicate_files =
                    SumOf([g \in DOMAIN groups |-> Len(groups[g].members)]),
                !.total_wasted_bytes =
                    SumOf([g \in DOMAIN groups |-> groups[g].wasted_bytes]),
                !.duplicate_groups = Take(groups, REPORT_GROUP_LIMIT)]
    /\ run' = [run EXCEPT !.phase = "finish"]
    /\ UNCHANGED <<disk, scans, files, file_hashes, runs, sessionVars,
                   reviewVars, utilVars, stageVars>>

----------------------------------------------------------------------------
(* Database.find_potential_duplicates *)

CROSS_SCAN_LIMIT == 1000       \* LIMIT 1000 of the cross-scan query

\* LOWER() on the names that occur on the drive
Lower(name) == IF name = "A" THEN "a" ELSE name

\* SUBSTR(path, -INSTR(REVERSE(path), '/') + 1): the text after the last '/'
Basename(path) == path[Len(path)]

\* the pairs <<new_file_id, existing_file_id>> the query selects
find_potential_duplicates(scan_id) ==
    LET pairs == {p \in (DOMAIN files) \X (DOMAIN files) :
                    /\ files[p[1]].scan_id = scan_id
                    /\ files[p[2]].scan_id # scan_id
                    /\ files[p[2]].scan_id \in DOMAIN scans
                    /\ files[p[1]].size_bytes = files[p[2]].size_bytes
                    /\ files[p[1]].size_bytes
                          >= DEFAULT_MIN_SIZE_FOR_DUPLICATE
                    /\ Lower(Basename(files[p[1]].path))
                          = Lower(Basename(files[p[2]].path))}
    IN IF Cardinality(pairs) <= CROSS_SCAN_LIMIT THEN pairs
       ELSE CHOOSE some \in SUBSET pairs :
                Cardinality(some) = CROSS_SCAN_LIMIT

----------------------------------------------------------------------------
(* MetadataCapture.inspect: phase 4 and the end (lines 290-319) *)

\* query_ok = FALSE is the cross-scan query raising, which
\* _find_cross_scan_duplicates catches and logs.
inspect_finish(query_ok) ==
    /\ run.phase = "finish"
    /\ LET potential_dups == IF query_ok
                             THEN find_potential_duplicates(run.scan_id)
                             ELSE {}
       IN report' = IF potential_dups # {}
                    THEN [report EXCEPT
                            !.cross_scan_duplicates =
                                Cardinality(potential_dups),
                            !.duplicate_groups = Append(@,
                                [type |-> "cross_scan_candidates",
                                 count |-> Cardinality(potential_dups)])]
                    ELSE report
    /\ scans' = [s \in DOMAIN scans |->
                    IF s = run.scan_id
                    THEN [scans[s] EXCEPT !.status = "COMPLETE"]
                    ELSE scans[s]]
    /\ run' = Idle
    /\ UNCHANGED <<disk, files, file_hashes, duplicate_groups,
                   duplicate_members, runs, sessionVars,
                   reviewVars, utilVars, stageVars>>

----------------------------------------------------------------------------
(* Metadata capture runs against one drive *)

InitCapture ==
    /\ disk \in [DOMAIN DiskPaths -> [size : FileSizes, data : FileData]]
    /\ EmptyLedger
    /\ inspection_sessions = <<>>
    /\ inspection_passes = <<>>
    /\ clock = 0
    /\ call = NoCall
    /\ resumed = NoResume
    /\ NoReview
    /\ NoUtil
    /\ NoStage

InspectBegin ==
    \E scan_id \in {0} \cup DOMAIN scans, enable_hashing \in BOOLEAN :
        inspect_begin(scan_id, enable_hashing)

CaptureFileMetadata == \E n \in 0..Len(DiskPaths) : capture_file_metadata(n)

ComputeFileHashes ==
    \E tie_order \in TieOrders : compute_file_hashes(tie_order)

IdentifyDuplicates == identify_duplicates

InspectFinish == \E query_ok \in BOOLEAN : inspect_finish(query_ok)

NextCapture ==
    \/ InspectBegin
    \/ CaptureFileMetadata
    \/ ComputeFileHashes
    \/ IdentifyDuplicates
    \/ InspectFinish

SpecCapture == InitCapture /\ [][NextCapture]_vars

----------------------------------------------------------------------------
(* Reading the ledger *)

PassRowsOf(session_id) ==
    {i \in DOMAIN inspection_passes :
        inspection_passes[i].session_id = session_id}

PassRow(session_id, n) ==
    CHOOSE i \in PassRowsOf(session_id) :
        inspection_passes[i].pass_number = n

StatusOf(session_id, n) == inspection_passes[PassRow(session_id, n)].status

StatusesOf(session_id) == [n \in 1..4 |-> StatusOf(session_id, n)]

TerminalStatuses == {"completed", "failed", "skipped"}

MinOf(S) == CHOOSE x \in S : \A y \in S : x <= y

----------------------------------------------------------------------------
(* C1: every session has exactly four pass rows, with ordinals 1..4 and    *)
(* the names health, os_detection, metadata, review, after start_session   *)
(* and after any later call; start_session leaves the new session active   *)
(* with current pass 1 and its four rows pending.                          *)

FourStages(sessions, passes, s) ==
    LET rows == {i \in DOMAIN passes : passes[i].session_id = s}
    IN /\ Cardinality(rows) = 4
       /\ {passes[i].pass_number : i \in rows} = 1..4
       /\ \A i \in rows :
              passes[i].pass_name =
                 <<"health", "os_detection", "metadata", "review">>
                    [passes[i].pass_number]

C1_FourPendingStages ==
    [][ /\ \A s \in DOMAIN inspection_sessions' :
              FourStages(inspection_sessions', inspection_passes', s)
        /\ call'.op = "start_inspection" =>
              LET s == call'.session_id
              IN /\ DOMAIN inspection_sessions' =
                        DOMAIN inspection_sessions \cup {s}
                 /\ s \notin DOMAIN inspection_sessions
                 /\ inspection_sessions'[s].status = "active"
                 /\ inspection_sessions'[s].current_pass = 1
                 /\ \A i \in DOMAIN inspection_passes' :
                        inspection_passes'[i].session_id = s =>
                            inspection_passes'[i].status = "pending"
      ]_vars

\* a session whose passes were acted on after it was started
C1_Witness ==
    \E s \in DOMAIN inspection_sessions :
        /\ FourStages(inspection_sessions, inspection_passes, s)
        /\ \E n, m \in 1..4 : /\ n # m
                               /\ StatusOf(s, n) # "pending"
                               /\ StatusOf(s, m) # "pending"

----------------------------------------------------------------------------
(* C2: resume(session) answers the smallest ordinal whose pass is not      *)
(* completed or skipped; [completed, completed, running, pending] gives 3  *)
(* and [completed, skipped, completed, pending] gives 4.                   *)

C2_ResumeSmallestOpen ==
    resumed.session_id \in DOMAIN inspection_sessions =>
        LET s == resumed.session_id
            open == {n \in 1..4 :
                        StatusOf(s, n) \notin {"completed", "skipped"}}
        IN /\ open # {} => resumed.ordinal = MinOf(open)
           /\ StatusesOf(s) =
                  <<"completed", "completed", "running", "pending">>
                => resumed.ordinal = 3
           /\ StatusesOf(s) =
                  <<"completed", "skipped", "completed", "pending">>
                => resumed.ordinal = 4

C2_Witness ==
    /\ resumed.session_id = 1
    /\ StatusesOf(1) = <<"completed", "skipped", "failed", "pending">>
    /\ resumed.ordinal = 3

----------------------------------------------------------------------------
(* C3: the current-pass pointer of a session never decreases, whatever the *)
(* sequence of start_stage, complete_stage, skip_stage and                 *)
(* complete_session calls.                                                 *)

C3_PointerNeverRegresses ==
    [][ \A s \in DOMAIN inspection_sessions :
            inspection_sessions'[s].current_pass
                >= inspection_sessions[s].current_pass ]_vars

----------------------------------------------------------------------------
(* C4: start_stage(session, ordinal) changes no pass row and leaves the    *)
(* current-pass pointer alone when the addressed pass does not exist or    *)
(* the session is not active.                                              *)

StageExists(session_id, pass_number) ==
    \E i \in DOMAIN inspection_passes :
        /\ inspection_passes[i].session_id = session_id
        /\ inspection_passes[i].pass_number = pass_number

SessionActive(session_id) ==
    /\ session_id \in DOMAIN inspection_sessions
    /\ inspection_sessions[session_id].status = "active"

C4_StartStageNoOp ==
    [][ ( /\ call'.op = "start_pass"
          /\ \/ ~StageExists(call'.session_id, call'.pass_number)
             \/ ~SessionActive(call'.session_id) )
        => /\ inspection_passes' = inspection_passes
           /\ \A s \in DOMAIN inspection_sessions :
                  inspection_sessions'[s].current_pass
                      = inspection_sessions[s].current_pass ]_vars

----------------------------------------------------------------------------
(* C5: complete_stage(session, ordinal, report, error) sets the addressed  *)
(* pass to failed exactly when error is non-empty and to completed         *)
(* otherwise, stores the report on it, and changes nothing else: the       *)
(* session rows (so an active session stays active) and every other pass   *)
(* row are as before.                                                      *)

C5_CompleteStageFrame ==
    [][ call'.op = "complete_pass" =>
          /\ inspection_sessions' = inspection_sessions
          /\ DOMAIN inspection_passes' = DOMAIN inspection_passes
          /\ \A i \in DOMAIN inspection_passes :
                IF /\ inspection_passes[i].session_id = call'.session_id
                   /\ inspection_passes[i].pass_number = call'.pass_number
                THEN /\ inspection_passes'[i].status =
                            IF call'.error_message \in {NULL, ""}
                            THEN "completed" ELSE "failed"
                     /\ inspection_passes'[i].report_json = call'.report_json
                     /\ inspection_passes'[i].session_id = call'.session_id
                     /\ inspection_passes'[i].pass_number = call'.pass_number
                ELSE inspection_passes'[i] = inspection_passes[i] ]_vars

\* a pass failed by complete_stage in a session that is still active and
\* has another pass that had been acted on before
C5_Witness ==
    /\ call.op = "complete_pass"
    /\ call.error_message = "error"
    /\ SessionActive(call.session_id)
    /\ call.pass_number \in 1..4
    /\ StatusOf(call.session_id, call.pass_number) = "failed"
    /\ \E n \in 1..4 : /\ n # call.pass_number
                        /\ StatusOf(call.session_id, n) = "running"

----------------------------------------------------------------------------
(* C6: every change of a pass status is pending->running,                  *)
(* running->completed, running->failed or running->skipped.                *)

AllowedStageTransitions ==
    {<<"pending", "running">>, <<"running", "completed">>,
     <<"running", "failed">>, <<"running", "skipped">>}

C6_StageTransitions ==
    [][ \A i \in DOMAIN inspection_passes :
            inspection_passes'[i].status # inspection_passes[i].status =>
                <<inspection_passes[i].status, inspection_passes'[i].status>>
                    \in AllowedStageTransitions ]_vars

----------------------------------------------------------------------------
(* C7: a session status is one of active, completed, failed, and once it   *)
(* is completed or failed no later call changes the status, the            *)
(* current-pass pointer or a pass row of that session.                     *)

C7_SessionTerminal ==
    [][ /\ \A s \in DOMAIN inspection_sessions' :
              inspection_sessions'[s].status
                  \in {"active", "completed", "failed"}
        /\ \A s \in DOMAIN inspection_sessions :
              inspection_sessions[s].status \in {"completed", "failed"} =>
                 /\ inspection_sessions'[s].status
                        = inspection_sessions[s].status
                 /\ inspection_sessions'[s].current_pass
                        = inspection_sessions[s].current_pass
                 /\ \A i \in PassRowsOf(s) :
                        inspection_passes'[i] = inspection_passes[i] ]_vars

----------------------------------------------------------------------------
(* C8: pass N+1 of a session is running or terminal only if pass N of the  *)
(* session is terminal (completed, failed or skipped).                     *)

C8_StagesInOrder ==
    \A s \in DOMAIN inspection_sessions : \A n \in 1..3 :
        StatusOf(s, n + 1) \in {"running"} \cup TerminalStatuses =>
            StatusOf(s, n) \in TerminalStatuses

----------------------------------------------------------------------------
(* Reading the duplicate catalogue *)

\* the duplicate_members rows of group g
MembersOf(g) == {m \in DOMAIN duplicate_members : duplicate_members[m].group_id = g}

\* the files that are members of group g
FilesOf(g) == {duplicate_members[m].file_id : m \in MembersOf(g)}

\* the groups of intra-scan grouping in the report (the cross-scan summary
\* entry carries a "type" field and no members)
ReportedGroups ==
    {i \in DOMAIN report.duplicate_groups :
        "type" \notin DOMAIN report.duplicate_groups[i]}

\* the quick fingerprint values stored for file f in scan s
QuickHashesOf(s, f) ==
    {file_hashes[h].hash_value : h \in {x \in DOMAIN file_hashes :
        /\ file_hashes[x].scan_id = s
        /\ file_hashes[x].file_id = f
        /\ file_hashes[x].hash_type = "quick"}}

\* the fingerprinted files of scan s
Fingerprinted(s) ==
    {f \in DOMAIN files : files[f].scan_id = s /\ QuickHashesOf(s, f) # {}}

\* the composite keys of file f in scan s
GroupKeysOf(s, f) ==
    {generate_composite_key(files[f].size_bytes, q) : q \in QuickHashesOf(s, f)}

----------------------------------------------------------------------------
(* C9 *)

PersistedGroupLaw(g) ==
    LET row == duplicate_groups[g]
    IN /\ row.file_count >= 2
       /\ Cardinality(MembersOf(g)) = row.file_count
       /\ row.total_wasted_bytes = row.file_size * (row.file_count - 1)

ReportedGroupLaw(i) ==
    LET group == report.duplicate_groups[i]
    IN /\ group.member_count >= 2
       /\ group.wasted_bytes = group.file_size * (group.member_count - 1)

\* C9, first half: every duplicate group persisted or reported by intra-scan
\* grouping has member count n >= 2 and wasted bytes = file_size * (n - 1).
C9_WastedBytesLaw ==
    /\ \A g \in DOMAIN duplicate_groups : PersistedGroupLaw(g)
    /\ \A i \in ReportedGroups : ReportedGroupLaw(i)

\* C9, second half: a (size, fingerprint) pair carried by a single file
\* never produces a group, i.e. every group has at least two files.
C9_NoSingletonGroup ==
    /\ \A g \in DOMAIN duplicate_groups : Cardinality(FilesOf(g)) >= 2
    /\ \A i \in ReportedGroups :
          Cardinality({report.duplicate_groups[i].members[k].file_id :
              k \in DOMAIN report.duplicate_groups[i].members}) >= 2

\* C9: every duplicate group ever persisted or reported by intra-scan
\* grouping has member count n >= 2 and wasted_bytes = file_size * (n - 1),
\* and a (size, fingerprint) pair carried by a single file never produces
\* a group.
C9_DuplicateGroupLaw == C9_WastedBytesLaw /\ C9_NoSingletonGroup

----------------------------------------------------------------------------
(* C10 *)

\* the step of _identify_duplicates
IdentifyStep == run.phase = "identify" /\ run'.phase = "finish"

\* the groups a step has added
NewGroups == (DOMAIN duplicate_groups') \ (DOMAIN duplicate_groups)

\* after the step, f1 and f2 are members of one of the groups it added
GroupedTogether(f1, f2) ==
    \E g \in NewGroups :
        /\ \E m \in DOMAIN duplicate_members' :
              duplicate_members'[m].group_id = g /\ duplicate_members'[m].file_id = f1
        /\ \E m \in DOMAIN duplicate_members' :
              duplicate_members'[m].group_id = g /\ duplicate_members'[m].file_id = f2

SameSizeAndFingerprint(s, f1, f2) ==
    /\ files[f1].size_bytes = files[f2].size_bytes
    /\ QuickHashesOf(s, f1) \cap QuickHashesOf(s, f2) # {}

SameGroupKey(s, f1, f2) == GroupKeysOf(s, f1) \cap GroupKeysOf(s, f2) # {}

\* two fingerprinted files of the scan are grouped together exactly when
\* they have equal size and equal quick fingerprint, equivalently an equal
\* composite key
C10_GroupedIffSameKey ==
    IdentifyStep =>
        \A f1, f2 \in Fingerprinted(run.scan_id) :
            f1 # f2 =>
                /\ GroupedTogether(f1, f2)
                      <=> SameSizeAndFingerprint(run.scan_id, f1, f2)
                /\ SameSizeAndFingerprint(run.scan_id, f1, f2)
                      <=> SameGroupKey(run.scan_id, f1, f2)

\* the members of the groups a grouping step adds are files of its scan
C10_NoOtherScanMember ==
    IdentifyStep =>
        \A m \in DOMAIN duplicate_members' :
            duplicate_members'[m].group_id \in NewGroups =>
                /\ duplicate_members'[m].scan_id = run.scan_id
                /\ files[duplicate_members'[m].file_id].scan_id = run.scan_id

\* no file is a member of two groups
AtMostOneGroup ==
    \A g1, g2 \in DOMAIN duplicate_groups :
        g1 # g2 => FilesOf(g1) \cap FilesOf(g2) = {}

\* C10: intra-scan grouping keys on (file size, quick fingerprint) jointly:
\* two fingerprinted files of the same scan are members of the same group
\* iff they have equal size and equal quick fingerprint (equivalently an
\* equal composite key), so equal fingerprints of different sizes are never
\* grouped; files of other scans are never members; each file belongs to at
\* most one group.
C10_JointKeyGrouping ==
    [][/\ C10_GroupedIffSameKey
       /\ C10_NoOtherScanMember
       /\ AtMostOneGroup']_vars

\* the parts of C10 that concern one grouping step
C10_StepParts == [][C10_GroupedIffSameKey /\ C10_NoOtherScanMember]_vars

\* the part of C10 that concerns the whole catalogue
C10_AtMostOneGroup == AtMostOneGroup

----------------------------------------------------------------------------
(* C11 *)

\* the files rows a step has added
NewFiles == (DOMAIN files') \ (DOMAIN files)

\* a first run on a fresh catalogue whose enumeration yielded every file
CleanFirstRun == runs = 1 /\ report.total_files = Len(DiskPaths)
                    /\ report.errors = <<>> /\ Len(files) = Len(DiskPaths)

\* files i and j of the drive have the same size and content and no other
\* file has their size
OnlyTwin(i, j) ==
    /\ i # j
    /\ disk[i] = disk[j]
    /\ \A k \in DOMAIN disk : k \notin {i, j} => disk[k].size # disk[i].size

\* C11: a metadata-capture run with hashing enabled over a directory holding
\* two files of identical size and content (10-byte files included) yields
\* exactly one duplicate group containing both, with member count 2 and
\* wasted_bytes equal to the file size.
C11_TwinsMakeOneGroup ==
    [][(IdentifyStep /\ CleanFirstRun) =>
          \A i, j \in DOMAIN disk :
              OnlyTwin(i, j) =>
                  \E g \in NewGroups :
                      /\ \A h \in NewGroups :
                            ({i, j} \cap {duplicate_members'[m].file_id :
                                m \in {x \in DOMAIN duplicate_members' :
                                    duplicate_members'[x].group_id = h}} # {})
                            => h = g
                      /\ {duplicate_members'[m].file_id :
                            m \in {x \in DOMAIN duplicate_members' :
                                duplicate_members'[x].group_id = g}} = {i, j}
                      /\ duplicate_groups'[g].file_count = 2
                      /\ duplicate_groups'[g].total_wasted_bytes = disk[i].size
      ]_vars

----------------------------------------------------------------------------
(* C12 *)

HashingDisabledRun == run.phase # "idle" /\ ~run.enable_hashing

CaptureStep == run.phase = "capture" /\ run'.phase # "capture"

FinishStep == run.phase = "finish" /\ run' = Idle

\* every file of the drive has a new files row of the run's scan
AllFilesRecorded ==
    \A i \in DOMAIN DiskPaths :
        \E f \in NewFiles :
            files'[f] = [scan_id |-> run.scan_id, path |-> DiskPaths[i],
                         size_bytes |-> disk[i].size]

\* C12: when metadata capture runs with hashing disabled, every accessible
\* file (files below the minimum hash size included) still gets a files row,
\* the run writes no file_hashes, duplicate_groups or duplicate_members row,
\* and the report has files_hashed = 0 and duplicate_groups_found = 0.
\* (The files-row part is for an enumeration that did not raise.)
C12_HashingDisabledFrame ==
    [][HashingDisabledRun =>
          /\ UNCHANGED <<file_hashes, duplicate_groups, duplicate_members>>
          /\ (CaptureStep /\ report'.errors = <<>>) => AllFilesRecorded
          /\ FinishStep => /\ report'.files_hashed = 0
                           /\ report'.duplicate_groups_found = 0
      ]_vars

\* a hashing-disabled run has catalogued the drive, a 10-byte file and a
\* file large enough to hash included, and is about to finish
C12_Witness ==
    /\ run.phase = "finish"
    /\ ~run.enable_hashing
    /\ report.errors = <<>>
    /\ \E f, g \in DOMAIN files :
          /\ files[f].scan_id = run.scan_id /\ files[f].size_bytes = 10
          /\ files[g].scan_id = run.scan_id
          /\ files[g].size_bytes >= DEFAULT_MIN_SIZE_FOR_DUPLICATE

----------------------------------------------------------------------------
(* The reports of passes 1-3 as InteractiveReview reads them *)

\* What json.loads gives for the report_json text of a pass row is held in
\* report_documents, by <<session_id, pass_number>>; the row itself holds
\* the text, of which only the truth value is read.
None == [kind |-> "none"]

HealthScores == {50, 100}
OsTypes == {"Windows", "Linux", "macOS", "Unknown"}
DuplicateCounts == {0, 3}
CrossScanCounts == {0, 2}

HealthReports == {[kind |-> "health", health_score |-> n] : n \in HealthScores}

OsReports ==
    {[kind |-> "os", os_type |-> t, boot_capable |-> b] :
        t \in OsTypes, b \in BOOLEAN}

MetadataReports ==
    {[kind |-> "metadata", duplicate_groups_found |-> d,
      cross_scan_duplicates |-> c, total_wasted_bytes |-> d * 2048] :
        d \in DuplicateCounts, c \in CrossScanCounts}

\* InteractiveReview._load_pass_report
load_pass_report(session_id, pass_number) ==
    IF \E i \in DOMAIN inspection_passes :
          /\ inspection_passes[i].session_id = session_id
          /\ inspection_passes[i].pass_number = pass_number
          /\ Truthy(inspection_passes[i].report_json)
    THEN report_documents[<<session_id, pass_number>>]
    ELSE None

\* a missing health report read as the worst score
health_scoreAbsentZero(health_report) ==
    IF health_report = None THEN 0 ELSE health_report.health_score

\* InteractiveReview._compile_health_summary: the score the decision
\* engine reads, report.health_summary.get('score', 100)
health_score(health_report) ==
    IF health_report = None THEN 100 ELSE health_report.health_score

\* InteractiveReview._compile_os_summary: os_type and boot_capable
os_summary(os_report) ==
    IF os_report = None
    THEN [os_type |-> NULL, boot_capable |-> FALSE]
    ELSE [os_type |-> os_report.os_type,
          boot_capable |-> os_report.boot_capable]

\* InteractiveReview._compile_metadata_summary: the two counts
metadata_summary(metadata_report) ==
    IF metadata_report = None
    THEN [duplicate_groups |-> 0, cross_scan_duplicates |-> 0]
    ELSE [duplicate_groups |-> metadata_report.duplicate_groups_found,
          cross_scan_duplicates |-> metadata_report.cross_scan_duplicates]

----------------------------------------------------------------------------
(* InteractiveReview._generate_decision_points *)

DecisionPoint(decision_id, category, options, default_option) ==
    [decision_id |-> decision_id, category |-> category,
     options |-> options, default_option |-> default_option,
     resolved |-> FALSE, resolution |-> NULL]

\* the trigger on the in-scan count alone
duplicate_triggerInScanOnly(dup_count, cross_dup_count) == dup_count > 0

\* if dup_count > 0 or cross_dup_count > 0
duplicate_trigger(dup_count, cross_dup_count) ==
    dup_count > 0 \/ cross_dup_count > 0

duplicate_handling ==
    DecisionPoint("duplicate_handling", "duplicate",
                  <<"skip_all", "catalog_with_flag", "review_individually">>,
                  "catalog_with_flag")

\* if os_type == 'Windows' and boot_capable
os_trigger(os_type, boot_capable) == os_type = "Windows" /\ boot_capable

os_preservation ==
    DecisionPoint("os_preservation", "os",
                  <<"bootable_archive", "data_only">>, "data_only")

system_folder_filter ==
    DecisionPoint("system_folder_filter", "filter",
                  <<"exclude_windows", "exclude_all_system", "include_all">>,
                  "exclude_windows")

health_action ==
    DecisionPoint("health_action", "custom",
                  <<"proceed_with_caution", "quick_backup_first",
                    "abort_inspection">>, "proceed_with_caution")

generate_decision_points(health, os, metadata) ==
    (IF duplicate_trigger(metadata.duplicate_groups,
                          metadata.cross_scan_duplicates)
     THEN <<duplicate_handling>> ELSE <<>>)
    \o (IF os_trigger(os.os_type, os.boot_capable)
        THEN <<os_preservation>> ELSE <<>>)
    \o (IF os.os_type = "Windows" THEN <<system_folder_filter>> ELSE <<>>)
    \o (IF health < 70 THEN <<health_action>> ELSE <<>>)

----------------------------------------------------------------------------
(* Database.record_decision / get_decisions *)

NewDecision(session_id, decision_type, decision_key, decision_value, description, decided_by, t) ==
    [session_id |-> session_id, decision_type |-> decision_type,
     decision_key |-> decision_key, decision_value |-> decision_value,
     description |-> description, decided_at |-> t,
     decided_by |-> decided_by]

\* one row per (session_id, decision_key): a second decision on a key
\* overwrites the row of the first
record_decisionUpsert(session_id, decision_type, decision_key, decision_value, description, decided_by) ==
    IF \E i \in DOMAIN inspection_decisions :
          /\ inspection_decisions[i].session_id = session_id
          /\ inspection_decisions[i].decision_key = decision_key
    THEN [i \in DOMAIN inspection_decisions |->
            IF /\ inspection_decisions[i].session_id = session_id
               /\ inspection_decisions[i].decision_key = decision_key
            THEN NewDecision(session_id, decision_type, decision_key,
                             decision_value, description, decided_by, Now)
            ELSE inspection_decisions[i]]
    ELSE Append(inspection_decisions,
                NewDecision(session_id, decision_type, decision_key,
                            decision_value, description, decided_by, Now))

\* INSERT INTO inspection_decisions ...: the table after the call
record_decision(session_id, decision_type, decision_key, decision_value, description, decided_by) ==
    Append(inspection_decisions,
           NewDecision(session_id, decision_type, decision_key,
                       decision_value, description, decided_by, Now))

\* ... ORDER BY decided_at
RECURSIVE ByDecidedAt(_)
ByDecidedAt(ids) ==
    IF ids = {} THEN <<>>
    ELSE LET first == CHOOSE i \in ids : \A j \in ids :
                 \/ inspection_decisions[i].decided_at
                        < inspection_decisions[j].decided_at
                 \/ /\ inspection_decisions[i].decided_at
                        = inspection_decisions[j].decided_at
                    /\ i <= j
         IN <<inspection_decisions[first]>> \o ByDecidedAt(ids \ {first})

\* the same query without WHERE session_id = ?
get_decisionsAnySession(session_id) ==
    ByDecidedAt(DOMAIN inspection_decisions)

\* SELECT * FROM inspection_decisions WHERE session_id = ? ORDER BY decided_at
get_decisions(session_id) ==
    ByDecidedAt({i \in DOMAIN inspection_decisions :
                    inspection_decisions[i].session_id = session_id})

----------------------------------------------------------------------------
(* InteractiveReview.inspect *)

ReviewStart == MaxSessions + 3    \* the clock when passes 1-3 are done

\* decision.resolved / resolution set where a default exists
AutoResolved(decision) ==
    IF Truthy(decision.default_option)
    THEN [decision EXCEPT !.resolved = TRUE,
                          !.resolution = decision.default_option]
    ELSE decision

\* the ReviewReport: the decision points and the decisions read back
review_report(session_id, auto_resolve) ==
    LET decisions ==
            generate_decision_points(
                health_score(load_pass_report(session_id, 1)),
                os_summary(load_pass_report(session_id, 2)),
                metadata_summary(load_pass_report(session_id, 3)))
    IN [kind |-> "review",
        decision_points |->
            [d \in DOMAIN decisions |->
                IF auto_resolve THEN AutoResolved(decisions[d])
                ELSE decisions[d]],
        resolved_decisions |-> get_decisions(session_id)]

\* the documents after report_json of pass (session_id, pass_number) is
\* set to the text of document
StoreDocument(documents, session_id, pass_number, document) ==
    [k \in (DOMAIN documents) \cup {<<session_id, pass_number>>} |->
        IF k = <<session_id, pass_number>> THEN document ELSE documents[k]]

\* inspect(drive_path, session_id, auto_resolve): start_pass(session_id, 4),
\* the report, complete_pass(session_id, 4, report.to_json(), None)
review_inspect(session_id, auto_resolve) ==
    /\ clock + 2 <= ReviewStart + MaxClock
    /\ inspection_sessions' = start_pass_sessions(session_id, 4)
    /\ inspection_passes' =
          [i \in DOMAIN inspection_passes |->
              IF /\ inspection_passes[i].session_id = session_id
                 /\ inspection_passes[i].pass_number = 4
              THEN CompletedRow(StartedRow(inspection_passes[i], clock + 1),
                                clock + 2, "report", NULL)
              ELSE inspection_passes[i]]
    /\ report_documents' =
          IF \E i \in DOMAIN inspection_passes :
                /\ inspection_passes[i].session_id = session_id
                /\ inspection_passes[i].pass_number = 4
          THEN StoreDocument(report_documents, session_id, 4,
                             review_report(session_id, auto_resolve))
          ELSE report_documents
    /\ clock' = clock + 2
    /\ call' = Call("inspect", session_id, 4, "report", NULL,
                    IF auto_resolve THEN "auto_resolve" ELSE NULL)
    /\ UNCHANGED <<resumed, captureVars, inspection_decisions, pending,
                   utilVars, stageVars>>

----------------------------------------------------------------------------
(* InteractiveReview.resolve_decision / get_pending_decisions *)

resolve_decision(session_id, decision_id, resolution, notes, decided_by) ==
    /\ clock < ReviewStart + MaxClock
    /\ inspection_decisions' =
          record_decision(session_id, decision_id, decision_id, resolution,
                          notes, decided_by)
    /\ clock' = clock + 1
    /\ call' = Call("record_decision", session_id, 0, NULL, NULL, NULL)
    /\ UNCHANGED <<inspection_sessions, inspection_passes, resumed,
                   captureVars, report_documents, pending, utilVars, stageVars>>

\* [d for d in all_decisions if d.get('decision_id') not in resolved_ids]
RECURSIVE Unresolved(_, _)
Unresolved(all_decisions, resolved_ids) ==
    IF all_decisions = <<>> THEN <<>>
    ELSE (IF Head(all_decisions).decision_id \notin resolved_ids
          THEN <<Head(all_decisions)>> ELSE <<>>)
         \o Unresolved(Tail(all_decisions), resolved_ids)

get_pending_decisions(session_id) ==
    LET existing_decisions == get_decisions(session_id)
        resolved_ids == {existing_decisions[i].decision_key :
                            i \in DOMAIN existing_decisions}
        pass4_report == load_pass_report(session_id, 4)
    IN IF ~get_inspection(session_id).found THEN <<>>
       ELSE IF pass4_report = None THEN <<>>
       ELSE Unresolved(pass4_report.decision_points, resolved_ids)

DoGetPendingDecisions(session_id) ==
    /\ pending' = [session_id |-> session_id,
                   decisions |-> get_pending_decisions(session_id)]
    /\ UNCHANGED <<sessionVars, captureVars, inspection_decisions,
                   report_documents, utilVars, stageVars>>

----------------------------------------------------------------------------
(* Review and decisions on sessions whose passes 1-3 are over *)

ReviewSessionIds == {1, 2}
\* resolve_decision(decision_id, resolution) as a reviewer calls it
ResolveInputs == {<<"duplicate_handling", "skip_all">>,
                  <<"duplicate_handling", "catalog_with_flag">>,
                  <<"os_preservation", "data_only">>}

\* the reports of the sessions after the first: a worn Windows system disk
\* with duplicates
OtherHealth == [kind |-> "health", health_score |-> 50]
OtherOs == [kind |-> "os", os_type |-> "Windows", boot_capable |-> TRUE]
OtherMetadata ==
    [kind |-> "metadata", duplicate_groups_found |-> 3,
     cross_scan_duplicates |-> 0, total_wasted_bytes |-> 6144]

\* Session 1 has passes 1-3 completed with any report, or left pending, and
\* is not reviewed yet; the other sessions have been reviewed once, without
\* auto-resolution, and no decision is recorded.
InitReview ==
    \E h \in HealthReports \cup {None}, o \in OsReports \cup {None},
       m \in MetadataReports \cup {None} :
        LET doc(s, n) ==
                CASE n = 1 -> IF s = 1 THEN h ELSE OtherHealth
                  [] n = 2 -> IF s = 1 THEN o ELSE OtherOs
                  [] n = 3 -> IF s = 1 THEN m ELSE OtherMetadata
                  [] n = 4 ->
                       [kind |-> "review",
                        decision_points |->
                            generate_decision_points(
                                health_score(OtherHealth),
                                os_summary(OtherOs),
                                metadata_summary(OtherMetadata)),
                        resolved_decisions |-> <<>>]
            stored == {k \in (1..MaxSessions) \X (1..4) :
                          IF k[2] = 4 THEN k[1] # 1
                          ELSE doc(k[1], k[2]) # None}
        IN /\ inspection_sessions =
                  [s \in 1..MaxSessions |-> NewSession(1, s)]
           /\ inspection_passes =
                  [i \in 1..(4 * MaxSessions) |->
                      LET s == ((i - 1) \div 4) + 1
                          n == ((i - 1) % 4) + 1
                      IN IF <<s, n>> \in stored
                         THEN RowInStatus(s, n, "completed", MaxSessions + n)
                         ELSE NewPass(s, n)]
           /\ report_documents = [k \in stored |-> doc(k[1], k[2])]
           /\ clock = ReviewStart
           /\ call = NoCall
           /\ resumed = NoResume
           /\ NoCapture
           /\ NoDecisions
           /\ NoUtil
           /\ NoStage

ReviewInspect ==
    \E s \in ReviewSessionIds, auto_resolve \in BOOLEAN :
        review_inspect(s, auto_resolve)

ResolveDecision ==
    \E s \in ReviewSessionIds, in \in ResolveInputs :
        resolve_decision(s, in[1], in[2], NULL, "user")

GetPendingDecisions ==
    \E s \in ReviewSessionIds \cup {MaxSessions + 1} :
        DoGetPendingDecisions(s)

NextReview ==
    \/ ReviewInspect
    \/ ResolveDecision
    \/ GetPendingDecisions

SpecReview == InitReview /\ [][NextReview]_vars

----------------------------------------------------------------------------
(* C13, C14 *)

\* the step is InteractiveReview.inspect on session s
ReviewStepOf(s) ==
    /\ clock' = clock + 2
    /\ call'.op = "inspect"
    /\ call'.session_id = s
    /\ call'.pass_number = 4

\* the decision points with the given id in the review report of session s
\* after the step
PointsEmitted(s, decision_id) ==
    {d \in DOMAIN report_documents'[<<s, 4>>].decision_points :
        report_documents'[<<s, 4>>].decision_points[d].decision_id
            = decision_id}

PointEmitted(s, d) == report_documents'[<<s, 4>>].decision_points[d]

\* C13: the decision engine emits a duplicate_handling decision point iff
\* the metadata-capture report has duplicate_groups_found > 0 or
\* cross_scan_duplicates > 0; its options are skip_all, catalog_with_flag,
\* review_individually and its default is catalog_with_flag, one of them.
C13_DuplicateHandlingTrigger ==
    [][\A s \in ReviewSessionIds :
          ReviewStepOf(s) =>
              LET metadata_report == load_pass_report(s, 3)
                  emitted == PointsEmitted(s, "duplicate_handling")
              IN /\ (emitted # {}) <=>
                        /\ metadata_report # None
                        /\ \/ metadata_report.duplicate_groups_found > 0
                           \/ metadata_report.cross_scan_duplicates > 0
                 /\ Cardinality(emitted) <= 1
                 /\ \A d \in emitted :
                        /\ PointEmitted(s, d).options =
                              <<"skip_all", "catalog_with_flag",
                                "review_individually">>
                        /\ PointEmitted(s, d).default_option
                              = "catalog_with_flag"
                        /\ \E o \in DOMAIN PointEmitted(s, d).options :
                              PointEmitted(s, d).options[o]
                                  = PointEmitted(s, d).default_option
      ]_vars

\* session 1 was reviewed on a metadata report with no in-scan group and two
\* cross-scan candidates, and the duplicate_handling point is in its report
C13_Witness ==
    /\ <<1, 4>> \in DOMAIN report_documents
    /\ <<1, 3>> \in DOMAIN report_documents
    /\ report_documents[<<1, 3>>].duplicate_groups_found = 0
    /\ report_documents[<<1, 3>>].cross_scan_duplicates = 2
    /\ \E d \in DOMAIN report_documents[<<1, 4>>].decision_points :
          report_documents[<<1, 4>>].decision_points[d].decision_id
              = "duplicate_handling"

DetectedOsTypes == {"Windows", "Linux", "macOS"}

\* C14: whenever the OS report states a detected operating system (Windows,
\* Linux or macOS) with boot_capable true, the decision engine emits an
\* os_preservation decision point with options bootable_archive and
\* data_only and default data_only; it emits none when no OS is detected
\* or boot_capable is false.
C14_OsPreservationTrigger ==
    [][\A s \in ReviewSessionIds :
          ReviewStepOf(s) =>
              LET os_report == load_pass_report(s, 2)
                  emitted == PointsEmitted(s, "os_preservation")
              IN /\ (emitted # {}) <=>
                        /\ os_report # None
                        /\ os_report.os_type \in DetectedOsTypes
                        /\ os_report.boot_capable
                 /\ \A d \in emitted :
                        /\ PointEmitted(s, d).options =
                              <<"bootable_archive", "data_only">>
                        /\ PointEmitted(s, d).default_option = "data_only"
      ]_vars

----------------------------------------------------------------------------
(* C15 *)

\* the decision points the last review of session s put in its report
TriggeredPoints(s) ==
    IF <<s, 4>> \in DOMAIN report_documents
    THEN {report_documents[<<s, 4>>].decision_points[d] :
             d \in DOMAIN report_documents[<<s, 4>>].decision_points}
    ELSE {}

\* the decision keys with a row recorded for session s
RecordedKeys(s) ==
    {inspection_decisions[i].decision_key :
        i \in {j \in DOMAIN inspection_decisions :
                  inspection_decisions[j].session_id = s}}

\* the ids of a list of decision points
IdsOf(points) == {points[d].decision_id : d \in DOMAIN points}

\* what get_pending_decisions(s) returns, as a set of decision ids
PendingIds(s) == IdsOf(get_pending_decisions(s))

PendingIsTriggeredMinusResolved(s) ==
    LET returned == get_pending_decisions(s)
        keys == RecordedKeys(s)
    IN /\ {returned[d] : d \in DOMAIN returned}
             = {point \in TriggeredPoints(s) : point.decision_id \notin keys}
       /\ Cardinality(IdsOf(returned)) = Len(returned)

\* the decision recorded last is not pending in its session
LastResolvedNotPending ==
    inspection_decisions # <<>> =>
        LET last == inspection_decisions[Len(inspection_decisions)]
        IN last.decision_key \notin PendingIds(last.session_id)

\* a call of get_pending_decisions changes nothing and answers by the
\* ledger as it is
PendingAnswer ==
    pending' # pending =>
        /\ UNCHANGED <<inspection_decisions, report_documents,
                       inspection_passes, inspection_sessions>>
        /\ pending'.decisions = get_pending_decisions(pending'.session_id)

\* C15: get_pending_decisions(session) returns exactly the decision points
\* triggered for that session whose key has no decision row of that session:
\* after resolve_decision(session, d, choice) the point d is not returned,
\* every other triggered point still is, and a key resolved in one session
\* stays pending in another (only rows of the session itself are counted).
C15_PendingDecisions ==
    /\ [](\A s \in ReviewSessionIds : PendingIsTriggeredMinusResolved(s))
    /\ []LastResolvedNotPending
    /\ [][PendingAnswer]_vars

\* duplicate_handling is resolved in session 2 and asked for there: it is
\* not returned, another point is, and it is still pending in session 1
C15_Witness ==
    /\ pending.session_id = 2
    /\ "duplicate_handling" \in RecordedKeys(2)
    /\ pending.decisions # <<>>
    /\ \A d \in DOMAIN pending.decisions :
          pending.decisions[d].decision_id # "duplicate_handling"
    /\ "duplicate_handling" \in PendingIds(1)

----------------------------------------------------------------------------
(* C16 *)

\* the rows of session s with key d, in the order get_decisions returns them
HistoryOf(s, d) ==
    SelectSeq(get_decisions(s), LAMBDA row : row.decision_key = d)

\* the row recorded last with key d in session s is the last row of that
\* key that get_decisions(s) returns
LatestComesLast(s, d) ==
    LET recorded == {i \in DOMAIN inspection_decisions :
                        /\ inspection_decisions[i].session_id = s
                        /\ inspection_decisions[i].decision_key = d}
        latest == CHOOSE i \in recorded : \A j \in recorded : j <= i
    IN recorded # {} =>
          /\ Len(HistoryOf(s, d)) = Cardinality(recorded)
          /\ HistoryOf(s, d)[Len(HistoryOf(s, d))]
                = inspection_decisions[latest]

\* the table changes only by one row added at its end
AppendOnly ==
    inspection_decisions' # inspection_decisions =>
        /\ Len(inspection_decisions') = Len(inspection_decisions) + 1
        /\ SubSeq(inspection_decisions', 1, Len(inspection_decisions))
              = inspection_decisions

----------------------------------------------------------------------------
(* C17 *)

\* C17: after the review stage runs for a session in auto-resolution mode
\* every triggered decision point is resolved with its default option, so
\* get_pending_decisions(session) afterwards returns no decision point.
C17_AutoResolveLeavesNothingPending ==
    (call.op = "inspect" /\ call.status = "auto_resolve") =>
        /\ \A point \in TriggeredPoints(call.session_id) :
              point.resolved /\ point.resolution = point.default_option
        /\ get_pending_decisions(call.session_id) = <<>>

\* the part of C17 that the report itself shows
C17_ReportMarksResolved ==
    (call.op = "inspect" /\ call.status = "auto_resolve") =>
        \A point \in TriggeredPoints(call.session_id) :
            point.resolved /\ point.resolution = point.default_option

----------------------------------------------------------------------------
(* hash_utils: the bytes compute_quick_hash and compute_sha256 read *)

QUICK_HASH_CHUNK_SIZE == 4096
MIN_SIZE_FOR_QUICK_HASH == 64

\* A file handed to the hash utilities: whether it can be stat'ed and
\* opened, its length, and its content, which is zero bytes except for a
\* byte 1 at the offsets in ones.
SampleSizes == {10, 65, 5000, 10000}
SampleOffsets == {0, 9, 64, 4100, 4999, 9999}
SampleAccess == {"ok", "denied", "missing"}

SampleFiles ==
    {f \in {[access |-> "ok", size |-> n, ones |-> o] :
                n \in SampleSizes,
                o \in {{}} \cup {{p} : p \in SampleOffsets}} :
        \A p \in f.ones : p < f.size}
    \cup {[access |-> a, size |-> 65, ones |-> {}] :
              a \in {"denied", "missing"}}

\* f.read(): the bytes of the file at offsets from .. to - 1
Bytes(file, from, to) ==
    [len |-> to - from,
     ones |-> {p - from : p \in {q \in file.ones : from <= q /\ q < to}}]

\* hasher.update(a); hasher.update(b): the bytes fed so far
Fed(a, b) == [len |-> a.len + b.len,
              ones |-> a.ones \cup {p + a.len : p \in b.ones}]

RECURSIVE SumSet(_)
SumSet(S) == IF S = {} THEN 0
             ELSE LET x == CHOOSE y \in S : TRUE IN x + SumSet(S \ {x})

\* the bytes fed to a hasher, as the number the hash function is applied to
Encoded(bytes) == bytes.len + SumSet({p + 1 : p \in bytes.ones})

Min(a, b) == IF a < b THEN a ELSE b

\* the quick hash without the read of the remaining content
quick_hash_bytesNoRemainder(file, chunk_size) ==
    IF file.size <= MIN_SIZE_FOR_QUICK_HASH
    THEN Bytes(file, 0, file.size)
    ELSE LET first_chunk == Bytes(file, 0, Min(chunk_size, file.size))
         IN IF file.size > chunk_size * 2
            THEN Fed(first_chunk,
                     Bytes(file, file.size - chunk_size, file.size))
            ELSE first_chunk

\* the file-content part of what compute_quick_hash feeds to md5
quick_hash_bytes(file, chunk_size) ==
    IF file.size <= MIN_SIZE_FOR_QUICK_HASH
    THEN Bytes(file, 0, file.size)
    ELSE LET first_chunk == Bytes(file, 0, Min(chunk_size, file.size))
         IN IF file.size > chunk_size * 2
            THEN Fed(first_chunk,
                     Bytes(file, file.size - chunk_size, file.size))
            ELSE Fed(first_chunk,
                     Bytes(file, Min(chunk_size, file.size), file.size))

\* compute_quick_hash(file_path, chunk_size): <<hash_value, error>>
quick_hash_of(file, chunk_size) ==
    CASE file.access = "missing" -> <<NULL, "File not found">>
      [] file.access = "denied" -> <<NULL, "Permission denied">>
      [] OTHER ->
           <<HexDigest(Md5(file.size,
                           Encoded(quick_hash_bytes(file, chunk_size)))),
             NULL>>

ShaSpace == 16 * HashSpace     \* digests of the strong hash

\* compute_sha256(file_path): <<hash_value, error>>, over the whole content
sha256_of(file) ==
    CASE file.access = "missing" -> <<NULL, "File not found">>
      [] file.access = "denied" -> <<NULL, "Permission denied">>
      [] OTHER ->
           <<HexDigest((file.size + Encoded(Bytes(file, 0, file.size)))
                           % ShaSpace), NULL>>

----------------------------------------------------------------------------
(* hash_utils.files_are_duplicates *)

Verdict(result, reason, quick_hashes, sha256_hashes) ==
    [op |-> "files_are_duplicates", result |-> result, reason |-> reason,
     quick_hashes |-> quick_hashes, sha256_hashes |-> sha256_hashes]

\* the comparison without stage 1
files_are_duplicatesNoSizeStage(file1, file2) ==
    IF file1.access = "missing" \/ file2.access = "missing"
    THEN Verdict(FALSE, "Comparison error", 0, 0)
    ELSE LET qh1 == quick_hash_of(file1, QUICK_HASH_CHUNK_SIZE)
             qh2 == quick_hash_of(file2, QUICK_HASH_CHUNK_SIZE)
             sha1 == sha256_of(file1)
             sha2 == sha256_of(file2)
         IN IF Truthy(qh1[2]) \/ Truthy(qh2[2])
            THEN Verdict(FALSE, "Hash error", 2, 0)
            ELSE IF qh1[1] # qh2[1]
            THEN Verdict(FALSE, "Quick hash mismatch", 2, 0)
            ELSE IF Truthy(sha1[2]) \/ Truthy(sha2[2])
            THEN Verdict(FALSE, "SHA-256 error", 2, 2)
            ELSE IF sha1[1] = sha2[1]
            THEN Verdict(TRUE, "SHA-256 match confirmed", 2, 2)
            ELSE Verdict(FALSE, "SHA-256 mismatch", 2, 2)

\* files_are_duplicates(file1_path, file2_path): (are_duplicates, reason),
\* with the number of quick and of SHA-256 hashes it computed on the way.
\* os.path.getsize raises for a missing file, which the outer except turns
\* into a comparison error.
files_are_duplicates(file1, file2) ==
    IF file1.access = "missing" \/ file2.access = "missing"
    THEN Verdict(FALSE, "Comparison error", 0, 0)
    ELSE IF file1.size # file2.size
    THEN Verdict(FALSE, "Different file sizes", 0, 0)
    ELSE LET qh1 == quick_hash_of(file1, QUICK_HASH_CHUNK_SIZE)
             qh2 == quick_hash_of(file2, QUICK_HASH_CHUNK_SIZE)
             sha1 == sha256_of(file1)
             sha2 == sha256_of(file2)
         IN IF Truthy(qh1[2]) \/ Truthy(qh2[2])
            THEN Verdict(FALSE, "Hash error", 2, 0)
            ELSE IF qh1[1] # qh2[1]
            THEN Verdict(FALSE, "Quick hash mismatch", 2, 0)
            ELSE IF Truthy(sha1[2]) \/ Truthy(sha2[2])
            THEN Verdict(FALSE, "SHA-256 error", 2, 2)
            ELSE IF sha1[1] = sha2[1]
            THEN Verdict(TRUE, "SHA-256 match confirmed", 2, 2)
            ELSE Verdict(FALSE, "SHA-256 mismatch", 2, 2)

----------------------------------------------------------------------------
(* The hash utilities applied to two files *)

InitHash ==
    /\ samples \in [1..2 -> SampleFiles]
    /\ verdict = NoVerdict
    /\ inspection_sessions = <<>>
    /\ inspection_passes = <<>>
    /\ clock = 0
    /\ call = NoCall
    /\ resumed = NoResume
    /\ NoCapture
    /\ NoReview
    /\ NoStage

FilesAreDuplicates ==
    /\ verdict' = files_are_duplicates(samples[1], samples[2])
    /\ UNCHANGED <<samples, sessionVars, captureVars, reviewVars,
                   stageVars>>

ComputeQuickHash ==
    \E i \in DOMAIN samples :
        /\ verdict' = [op |-> "compute_quick_hash", file |-> i,
                       result |-> quick_hash_of(samples[i],
                                                QUICK_HASH_CHUNK_SIZE)]
        /\ UNCHANGED <<samples, sessionVars, captureVars, reviewVars,
                   stageVars>>

NextHash ==
    \/ FilesAreDuplicates
    \/ ComputeQuickHash

SpecHash == InitHash /\ [][NextHash]_vars

----------------------------------------------------------------------------
(* C18 *)

\* C18: files_are_duplicates compares size, then quick hash, then SHA-256
\* and stops at the first mismatch: for files of different sizes it returns
\* (False, size mismatch) without computing any hash; it returns True only
\* if sizes, quick hashes and SHA-256 hashes all agree, and any hash error
\* gives False.
C18_ThreeStageComparison ==
    verdict.op = "files_are_duplicates" =>
        LET a == samples[1]
            b == samples[2]
            qa == quick_hash_of(a, QUICK_HASH_CHUNK_SIZE)
            qb == quick_hash_of(b, QUICK_HASH_CHUNK_SIZE)
        IN /\ (a.access # "missing" /\ b.access # "missing"
                  /\ a.size # b.size) =>
                  /\ verdict.result = FALSE
                  /\ verdict.reason = "Different file sizes"
                  /\ verdict.quick_hashes = 0
                  /\ verdict.sha256_hashes = 0
           /\ verdict.result =>
                  /\ a.size = b.size
                  /\ qa[2] = NULL /\ qb[2] = NULL /\ qa[1] = qb[1]
                  /\ sha256_of(a)[2] = NULL /\ sha256_of(b)[2] = NULL
                  /\ sha256_of(a)[1] = sha256_of(b)[1]
           /\ (a.access # "ok" \/ b.access # "ok") => verdict.result = FALSE
           /\ (verdict.reason = "Quick hash mismatch") =>
                  verdict.sha256_hashes = 0
           /\ verdict.sha256_hashes > 0 =>
                  (a.size = b.size /\ qa[1] = qb[1])

\* two readable files of different sizes were compared
C18_Witness ==
    /\ verdict.op = "files_are_duplicates"
    /\ samples[1].access = "ok" /\ samples[2].access = "ok"
    /\ samples[1].size # samples[2].size
    /\ verdict.reason = "Different file sizes"

----------------------------------------------------------------------------
(* C19 *)

\* the byte ranges of a file the quick hash is said to read: the first
\* chunk and, for a file of more than two chunks, the last chunk
SameSampledRanges(a, b) ==
    /\ a.size = b.size
    /\ Bytes(a, 0, Min(QUICK_HASH_CHUNK_SIZE, a.size))
         = Bytes(b, 0, Min(QUICK_HASH_CHUNK_SIZE, b.size))
    /\ a.size > QUICK_HASH_CHUNK_SIZE * 2 =>
           Bytes(a, a.size - QUICK_HASH_CHUNK_SIZE, a.size)
             = Bytes(b, b.size - QUICK_HASH_CHUNK_SIZE, b.size)

----------------------------------------------------------------------------
(* C20 *)

\* the file_hashes rows of one file of one scan with one hash type
HashRowsOf(s, f, hash_type) ==
    {i \in DOMAIN file_hashes :
        /\ file_hashes[i].scan_id = s
        /\ file_hashes[i].file_id = f
        /\ file_hashes[i].hash_type = hash_type}

\* C20: in every ledger state, also after metadata capture ran again on the
\* same scan id, each (scan, file) pair has at most one quick hash row and
\* at most one strong hash row.
C20_OneHashRowPerFileAndType ==
    \A s \in DOMAIN scans : \A f \in DOMAIN files :
        \A hash_type \in {"quick", "sha256"} :
            Cardinality(HashRowsOf(s, f, hash_type)) <= 1

\* C20 for the hash rows one run of the hashing phase adds
C20_OneRowPerRun ==
    [][ComputeFileHashes =>
          \A i, j \in (DOMAIN file_hashes') \ (DOMAIN file_hashes) :
              (/\ file_hashes'[i].scan_id = file_hashes'[j].scan_id
               /\ file_hashes'[i].file_id = file_hashes'[j].file_id
               /\ file_hashes'[i].hash_type = file_hashes'[j].hash_type)
              => i = j]_vars

----------------------------------------------------------------------------
(* C21 *)

\* the pairs (file of the scan, file of another scan) of equal size and of
\* equal basename ignoring case
CrossScanPairs(scan_id) ==
    {p \in (DOMAIN files) \X (DOMAIN files) :
        /\ files[p[1]].scan_id = scan_id
        /\ files[p[2]].scan_id # scan_id
        /\ files[p[1]].size_bytes = files[p[2]].size_bytes
        /\ Lower(Basename(files[p[1]].path))
              = Lower(Basename(files[p[2]].path))}

\* C21: cross-scan candidate detection for the active scan returns the
\* pairs (file of the scan, file of a different scan) of equal size and of
\* equal basename ignoring case, never a pair within one scan, every such
\* pair of the ledger up to the cap, and at most 1000 of them.
C21_CrossScanCandidates ==
    [][FinishStep =>
          report'.cross_scan_duplicates
            = Min(Cardinality(CrossScanPairs(run.scan_id)),
                  CROSS_SCAN_LIMIT)]_vars

\* C21 without the completeness part: what is reported is nothing, or the
\* number of such pairs among the files of at least the minimum size
C21_ReportedAreCandidates ==
    [][FinishStep =>
          \/ report'.cross_scan_duplicates = 0
          \/ report'.cross_scan_duplicates
               = Cardinality({p \in CrossScanPairs(run.scan_id) :
                                files[p[1]].size_bytes
                                  >= DEFAULT_MIN_SIZE_FOR_DUPLICATE})]_vars

----------------------------------------------------------------------------
(* C22 *)

\* the call that has just ended names a session, or a pass of a session,
\* that the ledger did not hold
InvalidReference ==
    /\ clock' # clock
    /\ \/ /\ call'.op \in {"complete_pass", "skip_pass"}
          /\ ~\E i \in DOMAIN inspection_passes :
                 /\ inspection_passes[i].session_id = call'.session_id
                 /\ inspection_passes[i].pass_number = call'.pass_number
       \/ /\ call'.op = "complete_inspection"
          /\ call'.session_id \notin DOMAIN inspection_sessions

\* C22: complete_pass, skip_pass and complete_inspection called with a
\* session id or pass number that the ledger does not hold fail hard (they
\* do not return normally) and leave every session and pass row unchanged.
C22_InvalidReferenceFails ==
    [][InvalidReference =>
          /\ call'.outcome # "returned"
          /\ UNCHANGED <<inspection_sessions, inspection_passes>>]_vars

\* C22, the rows only
C22_InvalidReferenceChangesNothing ==
    [][InvalidReference =>
          UNCHANGED <<inspection_sessions, inspection_passes>>]_vars

----------------------------------------------------------------------------
(* C27 *)

\* the member rows of a group that are flagged primary
PrimaryRowsOf(g) == {m \in MembersOf(g) : duplicate_members[m].is_primary}

\* C27: each persisted duplicate group has exactly one member flagged
\* primary, and that member is the file of the group observed earliest
\* during the enumeration of the scan, the one of lowest file id.
C27_PrimaryIsEarliest ==
    \A g \in DOMAIN duplicate_groups :
        /\ Cardinality(PrimaryRowsOf(g)) = 1
        /\ \A p \in PrimaryRowsOf(g) : \A m \in MembersOf(g) :
              duplicate_members[p].file_id <= duplicate_members[m].file_id

\* C27, the count only
C27_OnePrimary ==
    \A g \in DOMAIN duplicate_groups : Cardinality(PrimaryRowsOf(g)) = 1

----------------------------------------------------------------------------
(* MetadataCapture.inspect as pass 3 of a session, step by step: one step  *)
(* per file enumerated, per file hashed and per ledger write               *)

MaxStageRuns == 1    \* inspect() calls for the pass of the session

\* batch_size: one file per batch, a batch and a remainder, the drive in
\* exactly one batch, and less than one batch
BatchSizes == 1..(Len(DiskPaths) + 1)

\* the locals of a run of inspect: the session it belongs to, batch_size,
\* the number of files the scanner has yielded, files_batch, the rows of
\* files_to_hash not yet visited, hash_batch, hashed_count, and how the
\* last run ended
NewLoop(session_id, batch_size) ==
    [session_id |-> session_id, batch_size |-> batch_size, yielded |-> 0,
     files_batch |-> <<>>, to_hash |-> <<>>, hash_batch |-> <<>>,
     hashed_count |-> 0, ended |-> "none"]

\* an exception or an interrupt leaves inspect: the locals are gone, the
\* ledger keeps what was committed
Leave(how) ==
    /\ run' = Idle
    /\ loop' = [loop EXCEPT !.ended = how]

\* the scanner's file_info of the i-th file, as insert_files_batch stores it
FileRow(scan_id, i) ==
    [scan_id |-> scan_id, path |-> DiskPaths[i], size_bytes |-> disk[i].size]

\* a batch insert that keeps the rows before the failing one
insert_files_batchNoRollback(batch, insert_ok) ==
    IF insert_ok THEN files \o batch
    ELSE files \o SubSeq(batch, 1, Len(batch) - 1)

\* Database.insert_files_batch: the table after the call.  executemany
\* runs in one transaction, which get_connection commits at the end and
\* rolls back when a row raises (insert_ok = FALSE)
insert_files_batch(batch, insert_ok) ==
    IF insert_ok THEN files \o batch ELSE files

\* Database.insert_file_hashes_batch, likewise
insert_file_hashes_batch(batch, insert_ok) ==
    IF insert_ok THEN file_hashes \o batch ELSE file_hashes

\* lines 250-275: start_pass(session_id, 3), then the scan: the one given
\* (scan_id > 0) or a new one made by start_scan
stage_begin(session_id, scan_id, enable_hashing, batch_size) ==
    /\ run.phase = "idle"
    /\ runs < MaxStageRuns
    /\ inspection_passes' = start_pass_rows(session_id, 3)
    /\ inspection_sessions' = start_pass_sessions(session_id, 3)
    /\ clock' = clock + 1
    /\ call' = Call("start_pass", session_id, 3, NULL, NULL, NULL)
    /\ LET sid == IF scan_id = 0 THEN Len(scans) + 1 ELSE scan_id
       IN /\ scans' = IF scan_id = 0
                      THEN Append(scans, [status |-> "IN_PROGRESS"])
                      ELSE scans
          /\ run' = [phase |-> "capture", scan_id |-> sid,
                     enable_hashing |-> enable_hashing]
          /\ report' = [NewReport EXCEPT !.scan_id = sid]
    /\ loop' = NewLoop(session_id, batch_size)
    /\ runs' = runs + 1
    /\ UNCHANGED <<disk, files, file_hashes, duplicate_groups,
                   duplicate_members, resumed, reviewVars, utilVars>>

\* one turn of the loop at lines 335-372: the scanner yields the next file,
\* it is appended to files_batch, and a full batch is inserted.  insert_ok
\* = FALSE is insert_files_batch raising: the transaction is rolled back,
\* the except clause of line 380 records the error, the loop is left and
\* files_batch still holds the batch.
enumerate_file(insert_ok) ==
    /\ run.phase = "capture"
    /\ loop.yielded < Len(DiskPaths)
    /\ LET batch == Append(loop.files_batch,
                           FileRow(run.scan_id, loop.yielded + 1))
       IN IF Len(batch) >= loop.batch_size
          THEN IF insert_ok
               THEN /\ files' = insert_files_batch(batch, insert_ok)
                    /\ loop' = [loop EXCEPT !.yielded = @ + 1,
                                            !.files_batch = <<>>]
                    /\ UNCHANGED <<run, report>>
               ELSE /\ files' = insert_files_batch(batch, insert_ok)
                    /\ loop' = [loop EXCEPT !.yielded = @ + 1,
                                            !.files_batch = batch]
                    /\ report' = [report EXCEPT !.errors =
                                     Append(@, "File enumeration error")]
                    /\ run' = [run EXCEPT !.phase = "flush"]
          ELSE /\ insert_ok
               /\ loop' = [loop EXCEPT !.yielded = @ + 1,
                                       !.files_batch = batch]
               /\ UNCHANGED <<files, run, report>>
    /\ UNCHANGED <<disk, scans, file_hashes, duplicate_groups,
                   duplicate_members, runs, sessionVars, reviewVars,
                   utilVars>>

\* the loop ends: the scanner is exhausted, or (raised) it raised an
\* exception, which line 380 catches and records
enumeration_stops(raised) ==
    /\ run.phase = "capture"
    /\ IF raised THEN loop.yielded < Len(DiskPaths)
                 ELSE loop.yielded = Len(DiskPaths)
    /\ report' = IF raised
                 THEN [report EXCEPT !.errors =
                          Append(@, "File enumeration error")]
                 ELSE report
    /\ run' = [run EXCEPT !.phase = "flush"]
    /\ UNCHANGED <<disk, scans, files, file_hashes, duplicate_groups,
                   duplicate_members, runs, sessionVars, reviewVars,
                   utilVars, stageVars>>

\* the files left in the buffer are not inserted
remaining_filesDropped(files_batch) == <<>>

\* line 384: the files still in files_batch when the loop is over
remaining_files(files_batch) == files_batch

\* lines 384-388: the remaining files are inserted and total_files is set;
\* insert_files_batch raising here is caught nowhere and leaves inspect
flush_files(insert_ok) ==
    /\ run.phase = "flush"
    /\ LET batch == remaining_files(loop.files_batch)
       IN IF batch = <<>>
          THEN /\ insert_ok
               /\ files' = files
               /\ loop' = [loop EXCEPT !.files_batch = <<>>]
               /\ report' = [report EXCEPT !.total_files = loop.yielded]
               /\ run' = [run EXCEPT !.phase =
                             phase_after_capture(run.enable_hashing)]
          ELSE /\ files' = insert_files_batch(batch, insert_ok)
               /\ IF insert_ok
                  THEN /\ loop' = [loop EXCEPT !.files_batch = <<>>]
                       /\ report' = [report EXCEPT
                                        !.total_files = loop.yielded]
                       /\ run' = [run EXCEPT !.phase =
                                     phase_after_capture(run.enable_hashing)]
                  ELSE /\ Leave("raised")
                       /\ UNCHANGED report
    /\ UNCHANGED <<disk, scans, file_hashes, duplicate_groups,
                   duplicate_members, runs, sessionVars, reviewVars,
                   utilVars>>

\* KeyboardInterrupt while the files are enumerated or hashed: no except
\* clause of inspect or of its phases catches it (they catch Exception, and
\* FileScanner.scan re-raises it), so it leaves inspect at once
interrupt ==
    /\ run.phase \in {"capture", "hashing"}
    /\ Leave("interrupted")
    /\ UNCHANGED <<disk, scans, files, file_hashes, duplicate_groups,
                   duplicate_members, report, runs, sessionVars, reviewVars,
                   utilVars>>

\* lines 410-425: the files to hash are read; with none, the phase returns
hash_query(tie_order) ==
    /\ run.phase = "hash"
    /\ LET rows == files_to_hash(run.scan_id, tie_order)
       IN /\ loop' = [loop EXCEPT !.to_hash = rows]
          /\ run' = [run EXCEPT !.phase = IF rows = <<>> THEN "identify"
                                          ELSE "hashing"]
    /\ UNCHANGED <<disk, scans, files, file_hashes, duplicate_groups,
                   duplicate_members, report, runs, sessionVars, reviewVars,
                   utilVars>>

\* one turn of the loop at lines 436-464: the quick hash of the next file
\* is appended to hash_batch and a full batch is inserted; the insert
\* raising is caught nowhere and leaves inspect
hash_file(insert_ok) ==
    /\ run.phase = "hashing"
    /\ loop.to_hash # <<>>
    /\ LET file_id == Head(loop.to_hash)
           quick_hash == compute_quick_hash(files[file_id].path)[1]
           batch == IF quick_hash # NULL
                    THEN Append(loop.hash_batch,
                                [scan_id |-> run.scan_id,
                                 file_id |-> file_id,
                                 hash_type |-> "quick",
                                 hash_value |-> quick_hash])
                    ELSE loop.hash_batch
           hashed == IF quick_hash # NULL THEN loop.hashed_count + 1
                     ELSE loop.hashed_count
       IN IF quick_hash # NULL /\ Len(batch) >= loop.batch_size
          THEN IF insert_ok
               THEN /\ file_hashes' =
                           insert_file_hashes_batch(batch, insert_ok)
                    /\ loop' = [loop EXCEPT !.to_hash = Tail(@),
                                            !.hash_batch = <<>>,
                                            !.hashed_count = hashed]
                    /\ UNCHANGED run
               ELSE /\ file_hashes' =
                           insert_file_hashes_batch(batch, insert_ok)
                    /\ run' = Idle
                    /\ loop' = [loop EXCEPT !.to_hash = Tail(@),
                                            !.hash_batch = batch,
                                            !.hashed_count = hashed,
                                            !.ended = "raised"]
          ELSE /\ insert_ok
               /\ loop' = [loop EXCEPT !.to_hash = Tail(@),
                                       !.hash_batch = batch,
                                       !.hashed_count = hashed]
               /\ UNCHANGED <<file_hashes, run>>
    /\ UNCHANGED <<disk, scans, files, duplicate_groups, duplicate_members,
                   report, runs, sessionVars, reviewVars, utilVars>>

\* lines 466-471: the remaining hashes are inserted, files_hashed is set
hash_flush(insert_ok) ==
    /\ run.phase = "hashing"
    /\ loop.to_hash = <<>>
    /\ IF loop.hash_batch # <<>> /\ ~insert_ok
       THEN /\ Leave("raised")
            /\ UNCHANGED <<file_hashes, report>>
       ELSE /\ insert_ok
            /\ file_hashes' =
                   insert_file_hashes_batch(loop.hash_batch, insert_ok)
            /\ loop' = [loop EXCEPT !.hash_batch = <<>>]
            /\ report' = [report EXCEPT !.files_hashed = loop.hashed_count]
            /\ run' = [run EXCEPT !.phase = "identify"]
    /\ UNCHANGED <<disk, scans, files, duplicate_groups, duplicate_members,
                   runs, sessionVars, reviewVars, utilVars>>

\* _identify_duplicates: the grouping query raising (query_ok = FALSE)
\* leaves inspect; each group is stored with its members in one
\* transaction, and for the groups in failed that transaction raised, was
\* rolled back and was logged at line 562
stage_identify(query_ok, failed) ==
    /\ run.phase = "identify"
    /\ IF ~query_ok
       THEN /\ failed = {}
            /\ Leave("raised")
            /\ UNCHANGED <<duplicate_groups, duplicate_members, report>>
       ELSE LET candidates == duplicate_candidates(run.scan_id)
                groups == [g \in DOMAIN candidates |->
                              GroupDict(run.scan_id, candidates[g])]
                stored == Ascending((DOMAIN candidates) \ failed)
            IN /\ failed \subseteq DOMAIN candidates
               /\ duplicate_groups' = duplicate_groups \o
                     [k \in DOMAIN stored |->
                         GroupRow(candidates[stored[k]], groups[stored[k]])]
               /\ duplicate_members' = duplicate_members \o
                     Flatten([k \in DOMAIN stored |->
                         MemberRows(Len(duplicate_groups) + k, run.scan_id,
                                    groups[stored[k]])])
               /\ report' = [report EXCEPT
                     !.duplicate_groups_found = Len(groups),
                     !.total_duplicate_files =
                         SumOf([g \in DOMAIN groups |->
                                   Len(groups[g].members)]),
                     !.total_wasted_bytes =
                         SumOf([g \in DOMAIN groups |->
                                   groups[g].wasted_bytes]),
                     !.duplicate_groups = Take(groups, REPORT_GROUP_LIMIT)]
               /\ run' = [run EXCEPT !.phase = "finish"]
               /\ UNCHANGED loop
    /\ UNCHANGED <<disk, scans, files, file_hashes, runs, sessionVars,
                   reviewVars, utilVars>>

\* '; '.join(report.errors) if report.errors else None
JoinedErrors(errors) == IF errors # <<>> THEN "error" ELSE NULL

\* lines 290-319: the cross-scan check, complete_scan, and complete_pass
\* with the report; save_ok = FALSE is complete_pass raising, which line
\* 313 catches and logs
stage_finish(query_ok, save_ok) ==
    /\ run.phase = "finish"
    /\ LET potential_dups == IF query_ok
                             THEN find_potential_duplicates(run.scan_id)
                             ELSE {}
           final == IF potential_dups # {}
                    THEN [report EXCEPT
                            !.cross_scan_duplicates =
                                Cardinality(potential_dups),
                            !.duplicate_groups = Append(@,
                                [type |-> "cross_scan_candidates",
                                 count |-> Cardinality(potential_dups)])]
                    ELSE report
       IN /\ report' = final
          /\ IF save_ok
             THEN /\ inspection_passes' =
                        complete_pass_rows(loop.session_id, 3, "report",
                                           JoinedErrors(final.errors))
                  /\ call' = Call("complete_pass", loop.session_id, 3,
                                  "report", JoinedErrors(final.errors), NULL)
             ELSE UNCHANGED <<inspection_passes, call>>
    /\ clock' = clock + 1
    /\ scans' = [s \in DOMAIN scans |->
                    IF s = run.scan_id
                    THEN [scans[s] EXCEPT !.status = "COMPLETE"]
                    ELSE scans[s]]
    /\ Leave("returned")
    /\ UNCHANGED <<disk, files, file_hashes, duplicate_groups,
                   duplicate_members, runs, inspection_sessions, resumed,
                   reviewVars, utilVars>>

----------------------------------------------------------------------------
(* One session whose pass 3 is run, and rerun, on one drive *)

StageFileSizes == {10, 2048}

\* passes 1 and 2 of the session as the earlier passes left them
EarlierPasses == {<<"completed", "completed">>, <<"failed", "skipped">>,
                  <<"pending", "pending">>}

InitStage ==
    \E st \in EarlierPasses :
        /\ disk \in [DOMAIN DiskPaths -> [size : StageFileSizes, data : {0}]]
        /\ EmptyLedger
        /\ inspection_sessions = <<NewSession(1, 1)>>
        /\ inspection_passes =
               [n \in 1..4 |->
                   IF n <= 2 THEN RowInStatus(1, n, st[n], 1 + n)
                   ELSE NewPass(1, n)]
        /\ clock = 3
        /\ call = NoCall
        /\ resumed = NoResume
        /\ NoReview
        /\ NoUtil
        /\ NoStage

StageBegin ==
    \E scan_id \in {0} \cup DOMAIN scans, enable_hashing \in BOOLEAN,
       batch_size \in BatchSizes :
        stage_begin(1, scan_id, enable_hashing, batch_size)

EnumerateFile == \E insert_ok \in BOOLEAN : enumerate_file(insert_ok)

EnumerationStops == \E raised \in BOOLEAN : enumeration_stops(raised)

FlushFiles == \E insert_ok \in BOOLEAN : flush_files(insert_ok)

Interrupt == interrupt

HashQuery == \E tie_order \in TieOrders : hash_query(tie_order)

HashFile == \E insert_ok \in BOOLEAN : hash_file(insert_ok)

HashFlush == \E insert_ok \in BOOLEAN : hash_flush(insert_ok)

StageIdentify ==
    \E query_ok \in BOOLEAN,
       failed \in SUBSET (1..Len(duplicate_candidates(run.scan_id))) :
        stage_identify(query_ok, failed)

StageFinish ==
    \E query_ok \in BOOLEAN, save_ok \in BOOLEAN :
        stage_finish(query_ok, save_ok)

NextStage ==
    \/ StageBegin
    \/ EnumerateFile
    \/ EnumerationStops
    \/ FlushFiles
    \/ Interrupt
    \/ HashQuery
    \/ HashFile
    \/ HashFlush
    \/ StageIdentify
    \/ StageFinish

SpecStage == InitStage /\ [][NextStage]_vars

----------------------------------------------------------------------------
(* C23 *)

\* a step in which an interrupt ends the run
InterruptStep == run.phase # "idle" /\ loop'.ended = "interrupted"

\* C23: when an interrupt arrives while metadata capture is enumerating or
\* hashing, every file record and hash accumulated in the batch buffers is
\* written to the ledger before the run terminates, so the ledger holds a
\* file record for every file the enumerator had yielded.
C23_InterruptFlushesBuffers ==
    [][InterruptStep =>
          /\ files' = files \o loop.files_batch
          /\ file_hashes' = file_hashes \o loop.hash_batch]_vars

\* C23, for the batches already committed: the interrupt removes none
C23_InterruptKeepsCommitted ==
    [][InterruptStep => UNCHANGED <<files, file_hashes>>]_vars

----------------------------------------------------------------------------
(* C24 *)

\* the row of pass n of the session of the run
StagePass(n) == inspection_passes[PassRow(1, n)]

EarlierPassesDone ==
    \A n \in 1..2 : StagePass(n).status \in {"completed", "skipped"}

\* C24: a run of the pass that is interrupted after start_pass and before
\* it finishes leaves the pass in status running, with no report stored by
\* the run, so that resume of the session answers this pass when all
\* earlier passes are completed or skipped.
C24_InterruptedStaysRunning ==
    [][(run.phase # "idle" /\ loop'.ended # "returned") =>
          /\ StagePass(3).status = "running"
          /\ UNCHANGED <<inspection_passes, inspection_sessions>>
          /\ (InterruptStep /\ EarlierPassesDone) => resume(1) = 3]_vars

\* the run was interrupted with the earlier passes done, and pass 3 is
\* the pass to resume at
C24_Witness ==
    /\ loop.ended = "interrupted"
    /\ EarlierPassesDone
    /\ StagePass(3).status = "running"
    /\ StagePass(3).report_json = NULL
    /\ resume(1) = 3

----------------------------------------------------------------------------
(* C25 *)

\* the batch a step of the capture phase hands to insert_files_batch
FilesBatchHanded ==
    IF run.phase = "capture"
    THEN Append(loop.files_batch, FileRow(run.scan_id, loop.yielded + 1))
    ELSE loop.files_batch

\* the batch a step of the hashing phase hands to insert_file_hashes_batch
HashBatchHanded ==
    IF loop.to_hash # <<>>
    THEN Append(loop.hash_batch,
                [scan_id |-> run.scan_id, file_id |-> Head(loop.to_hash),
                 hash_type |-> "quick",
                 hash_value |->
                     compute_quick_hash(files[Head(loop.to_hash)].path)[1]])
    ELSE loop.hash_batch

\* a step leaves a table as it was or appends the whole batch handed over
BatchesAtomic ==
    /\ files' = files \/ files' = files \o FilesBatchHanded
    /\ file_hashes' = file_hashes
         \/ file_hashes' = file_hashes \o HashBatchHanded

\* every group row has file_count member rows, and every member row a group
GroupsComplete ==
    /\ \A g \in DOMAIN duplicate_groups :
          Cardinality(MembersOf(g)) = duplicate_groups[g].file_count
    /\ \A m \in DOMAIN duplicate_members :
          duplicate_members[m].group_id \in DOMAIN duplicate_groups

\* C25: multi-row ledger writes are atomic: also after a write failed
\* part-way, each file or hash batch is entirely present or entirely
\* absent while the batches committed before remain, and every persisted
\* duplicate group has exactly file_count member rows.
C25_AtomicWrites == [][BatchesAtomic]_vars /\ []GroupsComplete

\* a batch of two files was handed over, the insert raised, and the table
\* is as it was
C25_Witness ==
    /\ run.phase = "flush"
    /\ Len(loop.files_batch) >= 2
    /\ Len(loop.files_batch) >= loop.batch_size
    /\ report.errors # <<>>
    /\ loop.yielded = Len(loop.files_batch) + Len(files)

----------------------------------------------------------------------------
(* C26 *)

\* a step in which the run ends, otherwise than by an interrupt
RunEnds == run.phase # "idle" /\ loop'.ended \in {"returned", "raised"}

\* the run that ends caught an enumeration error, or a ledger write of the
\* hashing or grouping phase raised
StageError ==
    \/ loop'.ended = "returned" /\ report'.errors # <<>>
    \/ loop'.ended = "raised" /\ run.phase \in {"hashing", "identify"}

\* C26: when a run of the pass hits a stage-level error (file enumeration
\* raising, or a ledger write failing during hashing or grouping) it still
\* ends with the pass in status failed or skipped carrying a non-empty
\* error text, never left running, and the session stays active.
C26_StageErrorRecorded ==
    [][(RunEnds /\ StageError) =>
          /\ StagePass(3)'.status \in {"failed", "skipped"}
          /\ Truthy(StagePass(3)'.error_message)
          /\ inspection_sessions'[1].status = "active"]_vars

\* C26, for an error the enumeration loop caught, when the report is saved
C26_EnumerationErrorRecorded ==
    [][(RunEnds /\ report'.errors # <<>>
          /\ call'.op = "complete_pass" /\ clock' # clock
          /\ inspection_passes' # inspection_passes) =>
          /\ StagePass(3)'.status = "failed"
          /\ Truthy(StagePass(3)'.error_message)
          /\ inspection_sessions'[1].status = "active"]_vars

----------------------------------------------------------------------------
(* C29 *)

\* the file the scanner yielded in this step, if it yielded one
NewlyYielded ==
    IF loop'.yielded > loop.yielded
    THEN <<FileRow(run.scan_id, loop'.yielded)>> ELSE <<>>

\* the capture phase has ended and the run goes on
CaptureDone == run.phase = "flush" /\ run'.phase \notin {"flush", "idle"}

\* C29: in a capture run that is not interrupted, whatever the batch size
\* and the number of files enumerated (also when the enumeration stops on a
\* caught error), every file the enumerator yielded gets exactly one file
\* record, none dropped and none written twice, and report.total_files is
\* their number: at every step the table followed by the buffer grows by
\* the file just yielded and by nothing else, and at the end of the phase
\* the buffer is empty.
C29_EveryYieldedFileOnce ==
    [][/\ (run.phase \in {"capture", "flush"} /\ loop'.ended = "none") =>
            /\ loop'.yielded \in {loop.yielded, loop.yielded + 1}
            /\ files' \o loop'.files_batch
                  = files \o loop.files_batch \o NewlyYielded
       /\ CaptureDone =>
            /\ loop'.files_batch = <<>>
            /\ report'.total_files = loop'.yielded]_vars

\* a capture phase with a batch and a remainder has ended: three files in
\* batches of two
C29_Witness ==
    /\ run.phase \in {"hash", "finish"}
    /\ loop.batch_size = 2
    /\ loop.yielded = 3
    /\ report.total_files = 3
    /\ Len(files) = 3
    /\ report.errors = <<>>

----------------------------------------------------------------------------
(* C28 *)

\* the ids of the decision points in the review report of session s after
\* the step
IdsEmitted(s) ==
    {report_documents'[<<s, 4>>].decision_points[d].decision_id :
        d \in DOMAIN report_documents'[<<s, 4>>].decision_points}

\* the pass-4 row of session s is completed with a report after the step
ReviewCompleted(s) ==
    \E i \in DOMAIN inspection_passes' :
        /\ inspection_passes'[i].session_id = s
        /\ inspection_passes'[i].pass_number = 4
        /\ inspection_passes'[i].status = "completed"
        /\ Truthy(inspection_passes'[i].report_json)

----------------------------------------------------------------------------
(* Sessions on different drives, their calls interleaved *)

\* Session s was started on drive s, before the calls observed here: the
\* start times lie before the clock's origin, the four passes are pending.
InitSessions ==
    /\ inspection_sessions =
          [s \in 1..MaxSessions |-> NewSession(s, s - (MaxSessions + 1))]
    /\ inspection_passes =
          [i \in 1..(4 * MaxSessions) |->
              NewPass(((i - 1) \div 4) + 1, ((i - 1) % 4) + 1)]
    /\ clock = 0
    /\ call = NoCall
    /\ resumed = NoResume
    /\ NoCapture
    /\ NoReview
    /\ NoUtil
    /\ NoStage

\* the calls made on the sessions: the first two passes, with or without an
\* error, and one decision either way
SessionPassNumbers == {1, 2}
SessionErrors == {NULL, "error"}
SessionDecisions == {<<"duplicate_handling", "skip_all">>,
                     <<"os_preservation", "data_only">>}

SessionStartPass ==
    \E s \in 1..MaxSessions, p \in SessionPassNumbers : start_pass(s, p)

SessionCompletePass ==
    \E s \in 1..MaxSessions, p \in SessionPassNumbers,
       e \in SessionErrors : complete_pass(s, p, "report", e)

SessionSkipPass ==
    \E s \in 1..MaxSessions, p \in SessionPassNumbers :
        skip_pass(s, p, "reason")

SessionCompleteInspection ==
    \E s \in 1..MaxSessions, st \in SessionStatusInputs :
        complete_inspection(s, st)

\* InteractiveReview.resolve_decision on any of the sessions
SessionResolveDecision ==
    \E s \in 1..MaxSessions, in \in SessionDecisions :
        /\ clock < MaxClock
        /\ resolve_decision(s, in[1], in[2], NULL, "user")

NextSessions ==
    \/ SessionStartPass
    \/ SessionCompletePass
    \/ SessionSkipPass
    \/ SessionCompleteInspection
    \/ SessionResolveDecision

SpecSessions == InitSessions /\ [][NextSessions]_vars

----------------------------------------------------------------------------
(* C30 *)

SessionOps ==
    {"start_pass", "complete_pass", "skip_pass", "complete_inspection",
     "record_decision"}

\* the step is one of the five calls, made on session a
SessionStepOf(a) ==
    /\ clock' = clock + 1
    /\ call'.op \in SessionOps
    /\ call'.session_id = a

\* C30: sessions are independent under any interleaving of their calls: a
\* start_pass, complete_pass, skip_pass, complete_inspection or
\* resolve_decision on session a leaves the session row (status and
\* current pass), the pass rows and the decision rows of every other
\* session as they were, the only rows it can add being rows of a.
C30_SessionsIndependent ==
    [][\A a \in SessionIdInputs :
          SessionStepOf(a) =>
              /\ DOMAIN inspection_sessions' = DOMAIN inspection_sessions
              /\ \A b \in DOMAIN inspection_sessions :
                     b # a => inspection_sessions'[b] = inspection_sessions[b]
              /\ DOMAIN inspection_passes' = DOMAIN inspection_passes
              /\ \A i \in DOMAIN inspection_passes :
                     inspection_passes[i].session_id # a =>
                        inspection_passes'[i] = inspection_passes[i]
              /\ Len(inspection_decisions') >= Len(inspection_decisions)
              /\ \A i \in DOMAIN inspection_decisions' :
                     IF i \in DOMAIN inspection_decisions
                     THEN inspection_decisions'[i] = inspection_decisions[i]
                     ELSE inspection_decisions'[i].session_id = a
      ]_vars

\* pass 1 of session 2 was started, then session 1 was called twice, the
\* last call being start_pass(1, 2): session 1 points at pass 2, session 2
\* still points at pass 1 with its pass running since the first call
C30_Witness ==
    /\ call.op = "start_pass"
    /\ call.session_id = 1
    /\ call.pass_number = 2
    /\ clock = 3
    /\ inspection_sessions[1].current_pass = 2
    /\ inspection_sessions[2].current_pass = 1
    /\ inspection_sessions[2].status = "active"
    /\ inspection_passes[PassRow(2, 1)].status = "running"
    /\ inspection_passes[PassRow(2, 1)].started_at = 1
    /\ \E i \in DOMAIN inspection_decisions :
          inspection_decisions[i].session_id = 1
====
